---- MODULE Spec2Model ----
(***************************************************************************)
(* Model of the EPUB clean-up engine (calibre-plugin/cleanup.py and the    *)
(* standalone epub_cleanup.py) and of the batch loops that drive it.       *)
(*                                                                         *)
(* A document is the BeautifulSoup tree of its text: Tag nodes carry a     *)
(* name, an attribute dictionary and an ordered child list, NavigableString*)
(* nodes carry a string.  Strings are sequences of one-character strings.  *)
(* Equality of two model nodes is structural, as Tag.__eq__ is in bs4;     *)
(* identity of a node is its position (path) in the tree.                  *)
(***************************************************************************)
EXTENDS Integers, Sequences, FiniteSets, TLC

VARIABLES
    entry,            \* which entry point drives the engine
    config,           \* the configuration dictionary
    n_files,          \* number of text files of the book (batch)
    current_file,     \* position of the file open in the editor (0: not a text file)
    file_idx,         \* loop position of the batch loop over text_files
    should_cleanup,   \* argument of the current process call
    should_add,       \* argument of the current process call
    pc,               \* control point
    content,          \* the tree parsed from the document text (input of the call)
    malformed,        \* the document text is not well-formed markup
    soup,             \* the tree being mutated
    i,                \* scan cursor of merge_consecutive_spans (1-based)
    changes_made,     \* result flag of merge_consecutive_spans
    calls,            \* number of calls made on this tree
    before_pass,      \* the tree as it was when the current pass started
    heading_changed,  \* changes_made of add_chapter_headings(_with_config)
    chapter_added,    \* chapter_added of add_chapter_headings(_with_config)
    counter_in,       \* chapter_number argument of the current call
    chapter_number,   \* the running chapter counter
    headings,         \* heading strings written so far, in processing order
    written,          \* indices of the files written back so far
    argument,         \* the argument of a direct call of a pure function
    outcome,          \* the value that call returned
    dialog            \* the configuration dialog (ConfigDialog)

\* no dialog was built
NoDialog == <<>>

\* a direct call of a pure function, and the dialog
pureVars == <<argument, outcome, dialog>>

\* what a batch keeps from one document to the next
batchVars == <<entry, config, n_files, current_file, pureVars>>

\* the arguments of the current call
callVars == <<should_cleanup, should_add, content, malformed, counter_in>>

\* the results of the heading pass
headingVars == <<heading_changed, chapter_added>>

vars == <<batchVars, callVars, headingVars, file_idx, pc, soup, i,
          changes_made, calls, before_pass, chapter_number, headings, written>>

---------------------------------------------------------------------------
(* Bounds of the model *)

\* longest sibling list of the merge inputs
MaxSibs == 3
\* largest number of text files in a batch
MaxFiles == 2

---------------------------------------------------------------------------
(* Strings *)

Whitespace == {" ", "\t", "\n", "\r"}

\* str(s).strip() == ''
IsBlank(s) == \A k \in 1..Len(s) : s[k] \in Whitespace

RECURSIVE LStrip(_)
LStrip(s) == IF s # <<>> /\ Head(s) \in Whitespace THEN LStrip(Tail(s)) ELSE s

RECURSIVE RStrip(_)
RStrip(s) ==
    IF s # <<>> /\ s[Len(s)] \in Whitespace
    THEN RStrip(SubSeq(s, 1, Len(s) - 1)) ELSE s

\* str.strip()
Strip(s) == RStrip(LStrip(s))

\* str.replace(old, new) for a one-character old
Replace(s, old, new) == [k \in 1..Len(s) |-> IF s[k] = old THEN new ELSE s[k]]

RECURSIVE Flatten(_)
Flatten(ss) == IF ss = <<>> THEN <<>> ELSE Head(ss) \o Flatten(Tail(ss))

---------------------------------------------------------------------------
(* The document tree *)

NoAttrs == <<>>

NavigableString(s) == [kind |-> "text", s |-> s]

Tag(name, attrs, contents) ==
    [kind |-> "tag", name |-> name, attrs |-> attrs, contents |-> contents]

IsTag(n) == n.kind = "tag"
IsString(n) == n.kind = "text"

has_attr(n, key) == key \in DOMAIN n.attrs

SetAttr(n, key, val) ==
    [n EXCEPT !.attrs = [a \in (DOMAIN n.attrs) \cup {key} |->
                            IF a = key THEN val ELSE n.attrs[a]]]

DelAttr(n, key) ==
    [n EXCEPT !.attrs = [a \in (DOMAIN n.attrs) \ {key} |-> n.attrs[a]]]

RemoveAt(seq, k) == SubSeq(seq, 1, k - 1) \o SubSeq(seq, k + 1, Len(seq))

\* InsertAt that puts e after position k
InsertAt_After(seq, k, e) == SubSeq(seq, 1, k) \o <<e>> \o SubSeq(seq, k + 1, Len(seq))

\* first_child.insert_before(new_p), k being the position of first_child
InsertAt(seq, k, e) == SubSeq(seq, 1, k - 1) \o <<e>> \o SubSeq(seq, k, Len(seq))

RECURSIVE NodeAt(_, _)
NodeAt(n, path) ==
    IF path = <<>> THEN n ELSE NodeAt(n.contents[Head(path)], Tail(path))

RECURSIVE ReplaceAt(_, _, _)
ReplaceAt(n, path, new) ==
    IF path = <<>> THEN new
    ELSE [n EXCEPT !.contents[Head(path)] =
                       ReplaceAt(n.contents[Head(path)], Tail(path), new)]

\* Paths of the descendants of n, in document order
RECURSIVE Descendants(_, _)
Descendants(n, path) ==
    IF ~IsTag(n) THEN <<>>
    ELSE Flatten([k \in 1..Len(n.contents) |->
            <<path \o <<k>>>> \o Descendants(n.contents[k], path \o <<k>>)])

SelectPaths(n, paths, Test(_)) == SelectSeq(paths, LAMBDA p : Test(NodeAt(n, p)))

\* soup.find_all(name)
find_all(n, name) ==
    SelectPaths(n, Descendants(n, <<>>), LAMBDA d : IsTag(d) /\ d.name = name)

\* soup.find(name): path of the first match, <<0>> when there is none
NotFound == <<0>>

find(n, name) ==
    LET ps == find_all(n, name) IN IF ps = <<>> THEN NotFound ELSE ps[1]

\* soup.find(attrs={key: val})
find_attrs(n, key, val) ==
    LET ps == SelectPaths(n, Descendants(n, <<>>),
                  LAMBDA d : IsTag(d) /\ has_attr(d, key) /\ d.attrs[key] = val)
    IN IF ps = <<>> THEN NotFound ELSE ps[1]

\* Tag.get_text(): every descendant string, concatenated
RECURSIVE get_text(_)
get_text(n) ==
    IF IsString(n) THEN n.s
    ELSE Flatten([k \in 1..Len(n.contents) |-> get_text(n.contents[k])])

\* truth value of a node in `while next_sibling:` (an empty string is falsy)
Truthy(n) == IsTag(n) \/ n.s # <<>>

---------------------------------------------------------------------------
(* Entry points *)

\* direct calls of merge_consecutive_spans
MergeEntries == {"merge_plugin", "merge_script"}
\* entry points that run the code of the standalone script epub_cleanup.py
ScriptEntries == {"merge_script", "plain_script", "process_epub"}
\* entry points that go through process_xhtml_content_with_config
ConfigEntries == {"with_config", "run_tool"}
\* the batch loops
BatchEntries == {"run_tool", "process_epub"}

---------------------------------------------------------------------------
(* merge_consecutive_spans *)

\* ScanRun without the comparison of the style values
RECURSIVE ScanRun_AnyStyle(_, _, _, _)
ScanRun_AnyStyle(sibs, j, current_style, acc) ==
    IF j > Len(sibs) \/ ~Truthy(sibs[j]) THEN acc
    ELSE IF IsString(sibs[j])
    THEN IF IsBlank(sibs[j].s)
         THEN ScanRun_AnyStyle(sibs, j + 1, current_style, acc)
         ELSE acc
    ELSE IF sibs[j].name = "span" /\ has_attr(sibs[j], "style")
    THEN ScanRun_AnyStyle(sibs, j + 1, current_style, Append(acc, j))
    ELSE acc

\* ScanRun in which a whitespace-only string ends the run as any other string
RECURSIVE ScanRun_NoWhitespace(_, _, _, _)
ScanRun_NoWhitespace(sibs, j, current_style, acc) ==
    IF j > Len(sibs) \/ ~Truthy(sibs[j]) THEN acc
    ELSE IF IsString(sibs[j]) THEN acc
    ELSE IF /\ sibs[j].name = "span"
            /\ has_attr(sibs[j], "style")
            /\ sibs[j].attrs["style"] = current_style
    THEN ScanRun_NoWhitespace(sibs, j + 1, current_style, Append(acc, j))
    ELSE acc

\* ScanRun that steps over a span without a style attribute
RECURSIVE ScanRun_OverUnstyled(_, _, _, _)
ScanRun_OverUnstyled(sibs, j, current_style, acc) ==
    IF j > Len(sibs) \/ ~Truthy(sibs[j]) THEN acc
    ELSE IF IsString(sibs[j])
    THEN IF IsBlank(sibs[j].s)
         THEN ScanRun_OverUnstyled(sibs, j + 1, current_style, acc)
         ELSE acc
    ELSE IF sibs[j].name = "span" /\ ~has_attr(sibs[j], "style")
    THEN ScanRun_OverUnstyled(sibs, j + 1, current_style, acc)
    ELSE IF /\ sibs[j].name = "span"
            /\ has_attr(sibs[j], "style")
            /\ sibs[j].attrs["style"] = current_style
    THEN ScanRun_OverUnstyled(sibs, j + 1, current_style, Append(acc, j))
    ELSE acc

\* the inner scan `while next_sibling:`; yields the sibling indices of
\* spans_to_merge
RECURSIVE ScanRun(_, _, _, _)
ScanRun(sibs, j, current_style, acc) ==
    IF j > Len(sibs) \/ ~Truthy(sibs[j]) THEN acc
    ELSE IF IsString(sibs[j])
    THEN IF IsBlank(sibs[j].s)
         THEN ScanRun(sibs, j + 1, current_style, acc)
         ELSE acc
    ELSE IF /\ sibs[j].name = "span"
            /\ has_attr(sibs[j], "style")
            /\ sibs[j].attrs["style"] = current_style
    THEN ScanRun(sibs, j + 1, current_style, Append(acc, j))
    ELSE acc

spans_to_merge(sibs, k) == ScanRun(sibs, k + 1, sibs[k].attrs["style"], <<k>>)

\* `for content in current.contents:` appending content.extract() for a Tag
\* and str(content) for a string; extract() deletes from the list that is
\* being iterated, so the element after an extracted Tag is stepped over
RECURSIVE ExtractContents(_, _, _)
ExtractContents(cs, idx, acc) ==
    IF idx > Len(cs) THEN acc
    ELSE IF IsTag(cs[idx])
    THEN ExtractContents(RemoveAt(cs, idx), idx + 1, Append(acc, cs[idx]))
    ELSE ExtractContents(cs, idx + 1, Append(acc, NavigableString(cs[idx].s)))

\* SeparatorText that turns every whitespace character into a space
SeparatorText_AllWhitespace(s, script) ==
    IF script THEN s
    ELSE [k \in 1..Len(s) |-> IF s[k] \in Whitespace THEN " " ELSE s[k]]

\* the text appended for a whitespace node between two spans of the run
SeparatorText(s, script) ==
    IF script THEN s ELSE Replace(Replace(s, "\n", " "), "\r", " ")

\* the walk `while current:` from first_span to last_span; `==` between
\* Tags is structural
RECURSIVE CollectMerged(_, _, _, _, _)
CollectMerged(sibs, j, run, script, acc) ==
    LET last_span == sibs[run[Len(run)]]
        current == sibs[j]
    IN  IF j > Len(sibs) \/ ~Truthy(current) THEN acc
        ELSE IF current = last_span
        THEN acc \o ExtractContents(current.contents, 1, <<>>)
        ELSE IF j = run[1] \/ \E r \in 1..Len(run) : run[r] = j
        THEN CollectMerged(sibs, j + 1, run, script,
                           acc \o ExtractContents(current.contents, 1, <<>>))
        ELSE IF IsString(current)
        THEN CollectMerged(sibs, j + 1, run, script,
                 Append(acc, NavigableString(SeparatorText(current.s, script))))
        ELSE CollectMerged(sibs, j + 1, run, script, acc)

\* `while prev and isinstance(prev, NavigableString) and str(prev).strip() == ''`
\* removed is the set of sibling indices already taken out of the tree
RECURSIVE RemoveWhitespaceBefore(_, _, _)
RemoveWhitespaceBefore(sibs, removed, q) ==
    IF q < 1 THEN removed
    ELSE IF q \in removed THEN RemoveWhitespaceBefore(sibs, removed, q - 1)
    ELSE IF IsString(sibs[q]) /\ Truthy(sibs[q]) /\ IsBlank(sibs[q].s)
    THEN RemoveWhitespaceBefore(sibs, removed \cup {q}, q - 1)
    ELSE removed

\* RemoveMerged that takes nothing out of the tree
RemoveMerged_KeepsSpans(sibs, rest, removed) == removed

\* `for span in spans_to_merge[1:]:` whitespace before it, then decompose()
RECURSIVE RemoveMerged(_, _, _)
RemoveMerged(sibs, rest, removed) ==
    IF rest = <<>> THEN removed
    ELSE RemoveMerged(sibs, Tail(rest),
             RemoveWhitespaceBefore(sibs, removed, Head(rest) - 1)
                 \cup {Head(rest)})

RECURSIVE Keep(_, _, _)
Keep(sibs, removed, j) ==
    IF j > Len(sibs) THEN <<>>
    ELSE (IF j \in removed THEN <<>> ELSE <<sibs[j]>>) \o Keep(sibs, removed, j + 1)

\* MergeRunAt in which the span that stays carries the attributes of the
\* last span of the run
MergeRunAt_LastAttrs(sibs, k, script) ==
    LET run == spans_to_merge(sibs, k)
        merged_content == CollectMerged(sibs, k, run, script, <<>>)
        first_span == [sibs[k] EXCEPT !.contents = merged_content,
                                      !.attrs = sibs[run[Len(run)]].attrs]
        removed == RemoveMerged(sibs, Tail(run), {})
    IN  Keep([sibs EXCEPT ![k] = first_span], removed, 1)

\* the body of `if len(spans_to_merge) > 1:` on the child list holding the run
MergeRunAt(sibs, k, script) ==
    LET run == spans_to_merge(sibs, k)
        merged_content == CollectMerged(sibs, k, run, script, <<>>)
        first_span == [sibs[k] EXCEPT !.contents = merged_content]
        removed == RemoveMerged(sibs, Tail(run), {})
    IN  Keep([sibs EXCEPT ![k] = first_span], removed, 1)

Front(path) == SubSeq(path, 1, Len(path) - 1)

spans == find_all(soup, "span")

current_span == NodeAt(soup, spans[i])

Siblings(tree, path) == NodeAt(tree, Front(path)).contents

CurrentRun == spans_to_merge(Siblings(soup, spans[i]), spans[i][Len(spans[i])])

MergedSoup ==
    LET path == spans[i]
        parent == NodeAt(soup, Front(path))
    IN  ReplaceAt(soup, Front(path),
            [parent EXCEPT !.contents =
                MergeRunAt(parent.contents, path[Len(path)], entry \in ScriptEntries)])

mergeVars == <<batchVars, callVars, headingVars, file_idx, calls, before_pass,
               chapter_number, headings, written>>

\* `if not current_span.has_attr('style'): i += 1; continue`
MergeSkipUnstyled ==
    /\ pc = "merge"
    /\ i <= Len(spans)
    /\ ~has_attr(current_span, "style")
    /\ i' = i + 1
    /\ UNCHANGED <<mergeVars, pc, soup, changes_made>>

\* MergeRun that forgets to set changes_made
MergeRun_NoFlag ==
    /\ pc = "merge"
    /\ i <= Len(spans)
    /\ has_attr(current_span, "style")
    /\ Len(CurrentRun) > 1
    /\ soup' = MergedSoup
    /\ UNCHANGED <<mergeVars, pc, i, changes_made>>

\* a run of length > 1: merge it, rebuild the span list, keep the cursor
MergeRun ==
    /\ pc = "merge"
    /\ i <= Len(spans)
    /\ has_attr(current_span, "style")
    /\ Len(CurrentRun) > 1
    /\ soup' = MergedSoup
    /\ changes_made' = TRUE
    /\ UNCHANGED <<mergeVars, pc, i>>

\* a run of length 1: `i += 1`
MergeAdvance ==
    /\ pc = "merge"
    /\ i <= Len(spans)
    /\ has_attr(current_span, "style")
    /\ Len(CurrentRun) = 1
    /\ i' = i + 1
    /\ UNCHANGED <<mergeVars, pc, soup, changes_made>>

\* `while i < len(spans)` fails: return changes_made
MergeReturn ==
    /\ pc = "merge"
    /\ i > Len(spans)
    /\ pc' = IF entry \in MergeEntries THEN "merged" ELSE "heading"
    /\ before_pass' = IF entry \in MergeEntries THEN before_pass ELSE soup
    /\ UNCHANGED <<batchVars, callVars, headingVars, file_idx, soup, i,
                   changes_made, calls, chapter_number, headings, written>>

\* a second call of merge_consecutive_spans on the tree the first call left
MergeAgain ==
    /\ pc = "merged"
    /\ calls = 1
    /\ pc' = "merge"
    /\ calls' = 2
    /\ i' = 1
    /\ changes_made' = FALSE
    /\ before_pass' = soup
    /\ UNCHANGED <<batchVars, callVars, headingVars, file_idx, soup,
                   chapter_number, headings, written>>

---------------------------------------------------------------------------
(* Number formatting *)

Digits == <<"0", "1", "2", "3", "4", "5", "6", "7", "8", "9">>

\* str(n) for n >= 0
RECURSIVE str(_)
str(n) ==
    IF n < 10 THEN <<Digits[n + 1]>>
    ELSE str(n \div 10) \o <<Digits[(n % 10) + 1]>>

ones ==
    << <<>>, <<"O", "n", "e">>,
      <<"T", "w", "o">>, <<"T", "h", "r", "e", "e">>,
      <<"F", "o", "u", "r">>, <<"F", "i", "v", "e">>,
      <<"S", "i", "x">>, <<"S", "e", "v", "e", "n">>,
      <<"E", "i", "g", "h", "t">>, <<"N", "i", "n", "e">> >>

teens ==
    << <<"T", "e", "n">>, <<"E", "l", "e", "v", "e", "n">>,
      <<"T", "w", "e", "l", "v", "e">>, <<"T", "h", "i", "r", "t", "e", "e", "n">>,
      <<"F", "o", "u", "r", "t", "e", "e", "n">>, <<"F", "i", "f", "t", "e", "e", "n">>,
      <<"S", "i", "x", "t", "e", "e", "n">>, <<"S", "e", "v", "e", "n", "t", "e", "e", "n">>,
      <<"E", "i", "g", "h", "t", "e", "e", "n">>, <<"N", "i", "n", "e", "t", "e", "e", "n">> >>

tens ==
    << <<>>, <<>>,
      <<"T", "w", "e", "n", "t", "y">>, <<"T", "h", "i", "r", "t", "y">>,
      <<"F", "o", "r", "t", "y">>, <<"F", "i", "f", "t", "y">>,
      <<"S", "i", "x", "t", "y">>, <<"S", "e", "v", "e", "n", "t", "y">>,
      <<"E", "i", "g", "h", "t", "y">>, <<"N", "i", "n", "e", "t", "y">> >>

\* number_to_words that joins the tens word and the ones word with a hyphen
number_to_words_Hyphenated(n) ==
    IF n < 10 THEN ones[n + 1]
    ELSE IF n < 20 THEN teens[(n - 10) + 1]
    ELSE IF n < 100
    THEN tens[(n \div 10) + 1]
             \o (IF n % 10 = 0 THEN <<>> ELSE <<"-">> \o ones[(n % 10) + 1])
    ELSE str(n)

\* number_to_words(n) for n >= 0 (Python lists are 0-based)
number_to_words(n) ==
    IF n < 10 THEN ones[n + 1]
    ELSE IF n < 20 THEN teens[(n - 10) + 1]
    ELSE IF n < 100
    THEN tens[(n \div 10) + 1]
             \o (IF n % 10 = 0 THEN <<>> ELSE <<" ">> \o ones[(n % 10) + 1])
    ELSE str(n)

\* values without the subtractive pairs
values_Additive ==
    << <<1000, <<"M">>>>, <<500, <<"D">>>>, <<100, <<"C">>>>, <<50, <<"L">>>>,
      <<10, <<"X">>>>, <<5, <<"V">>>>, <<1, <<"I">>>> >>

values ==
    << <<1000, <<"M">>>>, <<900, <<"C", "M">>>>, <<500, <<"D">>>>, <<400, <<"C", "D">>>>,
      <<100, <<"C">>>>, <<90, <<"X", "C">>>>, <<50, <<"L">>>>, <<40, <<"X", "L">>>>,
      <<10, <<"X">>>>, <<9, <<"I", "X">>>>, <<5, <<"V">>>>, <<4, <<"I", "V">>>>,
      <<1, <<"I">>>> >>

\* numeral * count
RECURSIVE Repeat(_, _)
Repeat(numeral, count) ==
    IF count <= 0 THEN <<>> ELSE numeral \o Repeat(numeral, count - 1)

\* the loop `for value, numeral in values:` from table position k on
RECURSIVE RomanFrom(_, _, _)
RomanFrom(n, k, result) ==
    IF k > Len(values) THEN result
    ELSE LET value == values[k][1]
             numeral == values[k][2]
             count == n \div value
         IN  IF count # 0
             THEN RomanFrom(n - value * count, k + 1, result \o Repeat(numeral, count))
             ELSE RomanFrom(n, k + 1, result)

number_to_roman(n) == RomanFrom(n, 1, <<>>)

\* `sub in s` for strings
Contains(s, sub) ==
    \E k \in 0..(Len(s) - Len(sub)) : SubSeq(s, k + 1, k + Len(sub)) = sub

\* the labels of the numbering style selector of the dialog
StyleNumeric == <<"N", "u", "m", "e", "r", "i", "c", " ", "(", "e", "g", " ", "1", ",", " ", "2", ",", " ", "3", ".", ".", ".", ")">>

StyleWords == <<"W", "o", "r", "d", "s", " ", "(", "e", "g", " ", "O", "n", "e", ",", " ", "T", "w", "o", ",", " ", "T", "h", "r", "e", "e", ".", ".", ".", ")">>

StyleRoman == <<"R", "o", "m", "a", "n", " ", "N", "u", "m", "e", "r", "a", "l", "s", " ", "(", "e", "g", " ", "I", ",", " ", "I", "I", ",", " ", "I", "I", "I", ".", ".", ".", ")">>

\* format_chapter_number that expects the bare style names
format_chapter_number_ExactLabels(number, numbering_style) ==
    IF numbering_style = <<"W", "o", "r", "d", "s">>
    THEN number_to_words(number)
    ELSE IF numbering_style = <<"R", "o", "m", "a", "n">>
    THEN number_to_roman(number)
    ELSE str(number)

format_chapter_number(number, numbering_style) ==
    IF Contains(numbering_style, <<"W", "o", "r", "d", "s">>)
    THEN number_to_words(number)
    ELSE IF Contains(numbering_style, <<"R", "o", "m", "a", "n">>)
    THEN number_to_roman(number)
    ELSE str(number)

---------------------------------------------------------------------------
(* The heading recognizer *)

UpperCase == <<"A", "B", "C", "D", "E", "F", "G", "H", "I", "J", "K", "L", "M", "N", "O", "P", "Q", "R", "S", "T", "U", "V", "W", "X", "Y", "Z">>

LowerCase == <<"a", "b", "c", "d", "e", "f", "g", "h", "i", "j", "k", "l", "m", "n", "o", "p", "q", "r", "s", "t", "u", "v", "w", "x", "y", "z">>

IsDigit(c) == \E k \in 1..Len(Digits) : Digits[k] = c

IsLetter(c) == \E k \in 1..26 : UpperCase[k] = c \/ LowerCase[k] = c

\* case folding of re.IGNORECASE
Fold(c) ==
    IF \E k \in 1..26 : UpperCase[k] = c
    THEN LowerCase[CHOOSE k \in 1..26 : UpperCase[k] = c]
    ELSE c

\* `^` re.escape(prefix) `\s+` matches text[1..q-1], ignoring case
PrefixThenSpaces(text, prefix, q) ==
    /\ q - 1 > Len(prefix)
    /\ q - 1 <= Len(text)
    /\ \A k \in 1..Len(prefix) : Fold(text[k]) = Fold(prefix[k])
    /\ \A k \in (Len(prefix) + 1)..(q - 1) : text[k] \in Whitespace

\* re.match(pattern, text, re.IGNORECASE) for the three patterns
MatchesDigits(text, prefix) ==
    \E q \in 1..Len(text) : PrefixThenSpaces(text, prefix, q) /\ IsDigit(text[q])

MatchesRoman(text, prefix) ==
    \E q \in 1..Len(text) :
        PrefixThenSpaces(text, prefix, q) /\ Fold(text[q]) \in {"i", "v", "x"}

MatchesWord(text, prefix) ==
    \E q \in 1..(Len(text) - 1) :
        /\ PrefixThenSpaces(text, prefix, q)
        /\ IsLetter(text[q])
        /\ IsLetter(text[q + 1])

\* is_existing_chapter_heading without text.strip()
is_existing_chapter_heading_NoStrip(text, initial_chapter_text) ==
    \/ MatchesDigits(text, initial_chapter_text)
    \/ MatchesRoman(text, initial_chapter_text)
    \/ MatchesWord(text, initial_chapter_text)

is_existing_chapter_heading(text, initial_chapter_text) ==
    LET stripped == Strip(text)
    IN  \/ MatchesDigits(stripped, initial_chapter_text)
        \/ MatchesRoman(stripped, initial_chapter_text)
        \/ MatchesWord(stripped, initial_chapter_text)

---------------------------------------------------------------------------
(* The heading pass *)

Chapter == <<"C", "h", "a", "p", "t", "e", "r">>

\* config.get(key, default)
Get(cfg, key, default) == IF key \in DOMAIN cfg THEN cfg[key] ELSE default

\* `for child in body.children: if isinstance(child, Tag): ... break`
\* position of the first element child, 0 when there is none
FirstTagChild(body) ==
    IF \E k \in 1..Len(body.contents) : IsTag(body.contents[k])
    THEN CHOOSE k \in 1..Len(body.contents) :
             /\ IsTag(body.contents[k])
             /\ \A m \in 1..(k - 1) : ~IsTag(body.contents[m])
    ELSE 0

Unchanged(tree) == [soup |-> tree, changes_made |-> FALSE, chapter_added |-> 0]

Marked(tree) == [soup |-> tree, changes_made |-> TRUE, chapter_added |-> 1]

\* add_chapter_headings_with_config without the recognizer
add_chapter_headings_with_config_NoRecognizer(tree, cfg, insert_as_p) ==
    LET bodyPath == find(tree, "body")
    IN  IF bodyPath = NotFound THEN Unchanged(tree)
        ELSE
        LET body == NodeAt(tree, bodyPath)
            k == FirstTagChild(body)
        IN  IF k = 0 \/ body.contents[k].name # "p" THEN Unchanged(tree)
            ELSE
            LET first_child == body.contents[k]
                text_content == Strip(get_text(first_child))
            IN  IF text_content = <<>>
                THEN Marked(ReplaceAt(tree, bodyPath \o <<k>>,
                         SetAttr(first_child, "data-chapter-placeholder", "true")))
                ELSE IF insert_as_p
                THEN Marked(ReplaceAt(tree, bodyPath,
                         [body EXCEPT !.contents =
                             InsertAt(@, k,
                                 SetAttr(Tag("p", NoAttrs, <<>>),
                                         "data-chapter-placeholder", "true"))]))
                ELSE Unchanged(tree)

\* the heading pass of the configurable pipeline
add_chapter_headings_with_config(tree, cfg, insert_as_p) ==
    LET bodyPath == find(tree, "body")
    IN  IF bodyPath = NotFound THEN Unchanged(tree)
        ELSE
        LET body == NodeAt(tree, bodyPath)
            k == FirstTagChild(body)
        IN  IF k = 0 \/ body.contents[k].name # "p" THEN Unchanged(tree)
            ELSE
            LET first_child == body.contents[k]
                text_content == Strip(get_text(first_child))
            IN  IF text_content = <<>>
                THEN Marked(ReplaceAt(tree, bodyPath \o <<k>>,
                         SetAttr(first_child, "data-chapter-placeholder", "true")))
                ELSE IF /\ insert_as_p
                        /\ ~is_existing_chapter_heading(text_content,
                               Get(cfg, "initial_chapter_text", Chapter))
                THEN Marked(ReplaceAt(tree, bodyPath,
                         [body EXCEPT !.contents =
                             InsertAt(@, k,
                                 SetAttr(Tag("p", NoAttrs, <<>>),
                                         "data-chapter-placeholder", "true"))]))
                ELSE Unchanged(tree)

\* the heading pass of the fixed pipeline
add_chapter_headings(tree) ==
    LET bodyPath == find(tree, "body")
    IN  IF bodyPath = NotFound THEN Unchanged(tree)
        ELSE
        LET body == NodeAt(tree, bodyPath)
            k == FirstTagChild(body)
        IN  IF k # 0 /\ body.contents[k].name = "p"
                     /\ Strip(get_text(body.contents[k])) = <<>>
            THEN Marked(ReplaceAt(tree, bodyPath \o <<k>>,
                     SetAttr(body.contents[k], "data-chapter-placeholder", "true")))
            ELSE Unchanged(tree)

\* sep.join(parts)
RECURSIVE Join(_, _)
Join(parts, sep) ==
    IF parts = <<>> THEN <<>>
    ELSE IF Len(parts) = 1 THEN parts[1]
    ELSE parts[1] \o sep \o Join(Tail(parts), sep)

\* heading_text that appends the trailing text even when it is empty
heading_text_AlwaysTrailing(cfg, number) ==
    LET initial_text == Get(cfg, "initial_chapter_text", Chapter)
        numbering_style == Get(cfg, "numbering_style", StyleNumeric)
        text_following == Get(cfg, "text_following_number", <<>>)
        chapter_num_str == format_chapter_number(number, numbering_style)
    IN  Join(<<initial_text, chapter_num_str, text_following>>, <<" ">>)

\* the heading string built by process_xhtml_content_with_config
heading_text(cfg, number) ==
    LET initial_text == Get(cfg, "initial_chapter_text", Chapter)
        numbering_style == Get(cfg, "numbering_style", StyleNumeric)
        text_following == Get(cfg, "text_following_number", <<>>)
        chapter_num_str == format_chapter_number(number, numbering_style)
        heading_parts == <<initial_text, chapter_num_str>>
                            \o (IF text_following # <<>> THEN <<text_following>> ELSE <<>>)
    IN  Join(heading_parts, <<" ">>)

\* plain_heading_text without the space before the number
plain_heading_text_NoSpace(number) == Chapter \o str(number)

\* f"Chapter {chapter_number}" of process_xhtml_content
plain_heading_text(number) == Chapter \o <<" ">> \o str(number)

HeadingFor(number) ==
    IF entry \in ConfigEntries THEN heading_text(config, number)
    ELSE plain_heading_text(number)

\* WithHeading without placeholder.clear()
WithHeading_NoClear(tree, path, text) ==
    ReplaceAt(tree, path,
        DelAttr([NodeAt(tree, path) EXCEPT
                     !.contents = Append(@, NavigableString(text))],
                "data-chapter-placeholder"))

\* placeholder.clear(); placeholder.string = text; del placeholder[...]
WithHeading(tree, path, text) ==
    ReplaceAt(tree, path,
        DelAttr([NodeAt(tree, path) EXCEPT !.contents = <<NavigableString(text)>>],
                "data-chapter-placeholder"))

---------------------------------------------------------------------------
(* process_xhtml_content and process_xhtml_content_with_config *)

\* ProcessStart that merges whatever should_cleanup says
ProcessStart_AlwaysMerges ==
    /\ pc = "call"
    /\ pc' = "merge"
    /\ i' = 1
    /\ changes_made' = FALSE
    /\ before_pass' = soup
    /\ UNCHANGED <<batchVars, callVars, headingVars, file_idx, soup, calls,
                   chapter_number, headings, written>>

\* parse the text, then `if should_cleanup: merge_consecutive_spans(soup)`
\* (the fixed pipeline always merges)
ProcessStart ==
    /\ pc = "call"
    /\ IF entry \in ConfigEntries /\ ~should_cleanup
       THEN pc' = "heading" /\ UNCHANGED <<i, changes_made>>
       ELSE pc' = "merge" /\ i' = 1 /\ changes_made' = FALSE
    /\ before_pass' = soup
    /\ UNCHANGED <<batchVars, callVars, headingVars, file_idx, soup, calls,
                   chapter_number, headings, written>>

\* BeautifulSoup(content, 'lxml-xml') raises on text it rejects; neither
\* process function nor any of their callers catches the exception
ParseRejected ==
    /\ pc = "call"
    /\ malformed
    /\ pc' = "raised"
    /\ UNCHANGED <<batchVars, callVars, headingVars, file_idx, soup, i,
                   changes_made, calls, before_pass, chapter_number, headings,
                   written>>

\* HeadingResult that inserts whatever insert_heading says
HeadingResult_AlwaysInserts ==
    IF entry \in ConfigEntries
    THEN IF should_add
         THEN add_chapter_headings_with_config(soup, config, TRUE)
         ELSE Unchanged(soup)
    ELSE add_chapter_headings(soup)

HeadingResult ==
    IF entry \in ConfigEntries
    THEN IF should_add
         THEN add_chapter_headings_with_config(soup, config,
                  Get(config, "insert_heading", FALSE))
         ELSE Unchanged(soup)
    ELSE add_chapter_headings(soup)

\* `if should_add_chapters: ... = add_chapter_headings_with_config(...)`
HeadingPass ==
    /\ pc = "heading"
    /\ soup' = HeadingResult.soup
    /\ heading_changed' = HeadingResult.changes_made
    /\ chapter_added' = HeadingResult.chapter_added
    /\ pc' = "placeholder"
    /\ UNCHANGED <<batchVars, callVars, file_idx, i, changes_made, calls,
                   before_pass, chapter_number, headings, written>>

placeholder == find_attrs(soup, "data-chapter-placeholder", "true")

\* ReplacePlaceholder that counts a chapter for every document
ReplacePlaceholder_AlwaysCounts ==
    /\ pc = "placeholder"
    /\ IF chapter_added # 0 /\ placeholder # NotFound
       THEN /\ soup' = WithHeading(soup, placeholder, HeadingFor(chapter_number))
            /\ headings' = Append(headings, get_text(NodeAt(soup', placeholder)))
       ELSE UNCHANGED <<soup, headings>>
    /\ chapter_number' = chapter_number + 1
    /\ pc' = "return"
    /\ UNCHANGED <<batchVars, callVars, headingVars, file_idx, i, changes_made,
                   calls, before_pass, written>>

\* `if chapter_added: placeholder = soup.find(...); if placeholder: ...`
ReplacePlaceholder ==
    /\ pc = "placeholder"
    /\ IF chapter_added # 0 /\ placeholder # NotFound
       THEN /\ soup' = WithHeading(soup, placeholder, HeadingFor(chapter_number))
            /\ chapter_number' = chapter_number + 1
            /\ headings' = Append(headings, get_text(NodeAt(soup', placeholder)))
       ELSE UNCHANGED <<soup, chapter_number, headings>>
    /\ pc' = "return"
    /\ UNCHANGED <<batchVars, callVars, headingVars, file_idx, i, changes_made,
                   calls, before_pass, written>>

\* `return str(soup), chapter_number` to a direct caller
Return ==
    /\ pc = "return"
    /\ entry \notin BatchEntries
    /\ pc' = "done"
    /\ UNCHANGED <<batchVars, callVars, headingVars, file_idx, soup, i,
                   changes_made, calls, before_pass, chapter_number, headings,
                   written>>

---------------------------------------------------------------------------
(* The batch loops: EPUBCleanupTool.run_tool and process_epub *)

AllTextFiles == "All Text Files"

CurrentFileOnly == "Current File Only"

CurrentFileOnwards == "Current File Onwards"

text_files == 1..n_files

\* ScopeFiles in which 'Current File Onwards' starts at the first file
ScopeFiles_OnwardsFromFirst(enabled, scope) ==
    IF ~enabled THEN {}
    ELSE IF scope = AllTextFiles THEN text_files
    ELSE IF scope = CurrentFileOnly
    THEN (IF current_file = 0 THEN {} ELSE {current_file})
    ELSE text_files

\* the files of a scope; current_file = 0 stands for an open file that is
\* not a text file, whose name is in no list and whose index stays 0
ScopeFiles(enabled, scope) ==
    IF ~enabled THEN {}
    ELSE IF scope = AllTextFiles THEN text_files
    ELSE IF scope = CurrentFileOnly
    THEN (IF current_file = 0 THEN {} ELSE {current_file})
    ELSE { f \in text_files : f >= current_file }

cleanup_files ==
    IF entry = "run_tool"
    THEN ScopeFiles(config["cleanup_spans"], config["cleanup_scope"])
    ELSE text_files

chapter_files ==
    IF entry = "run_tool"
    THEN ScopeFiles(config["add_chapters"], config["chapter_scope"])
    ELSE text_files

files_to_process == cleanup_files \cup chapter_files

\* `if name not in files_to_process: continue`
LoopSkip ==
    /\ pc = "loop"
    /\ file_idx \in text_files
    /\ file_idx \notin files_to_process
    /\ file_idx' = file_idx + 1
    /\ UNCHANGED <<batchVars, callVars, headingVars, pc, soup, i, changes_made,
                   calls, before_pass, chapter_number, headings, written>>

\* read the file and call the engine on it
LoopCall(doc, bad) ==
    /\ pc = "loop"
    /\ file_idx \in text_files
    /\ file_idx \in files_to_process
    /\ content' = doc
    /\ malformed' = bad
    /\ soup' = doc
    /\ before_pass' = doc
    /\ should_cleanup' = (file_idx \in cleanup_files)
    /\ should_add' = (file_idx \in chapter_files)
    /\ counter_in' = chapter_number
    /\ heading_changed' = FALSE
    /\ chapter_added' = 0
    /\ pc' = "call"
    /\ UNCHANGED <<batchVars, file_idx, i, changes_made, calls, chapter_number,
                   headings, written>>

\* WriteBack of a caller that drops the counter returned by the call
WriteBack_DropsCounter ==
    /\ pc = "return"
    /\ entry \in BatchEntries
    /\ written' = written \cup {file_idx}
    /\ file_idx' = file_idx + 1
    /\ chapter_number' = counter_in
    /\ pc' = "loop"
    /\ UNCHANGED <<batchVars, callVars, headingVars, soup, i, changes_made,
                   calls, before_pass, headings>>

\* write the processed content back and go on with the next file
WriteBack ==
    /\ pc = "return"
    /\ entry \in BatchEntries
    /\ written' = written \cup {file_idx}
    /\ file_idx' = file_idx + 1
    /\ pc' = "loop"
    /\ UNCHANGED <<batchVars, callVars, headingVars, soup, i, changes_made,
                   calls, before_pass, chapter_number, headings>>

\* the loop over text_files is exhausted
LoopEnd ==
    /\ pc = "loop"
    /\ file_idx > n_files
    /\ pc' = "done"
    /\ UNCHANGED <<batchVars, callVars, headingVars, file_idx, soup, i,
                   changes_made, calls, before_pass, chapter_number, headings,
                   written>>

---------------------------------------------------------------------------
(* Inputs of the merger: one parent element with a bounded child list *)

Text(s) == NavigableString(s)

Style(v) == [a \in {"style"} |-> v]

Span(attrs, contents) == Tag("span", attrs, contents)

MergeItems ==
    { Text(<<" ">>), Text(<<"\n">>), Text(<<"x">>),
      Tag("b", NoAttrs, <<>>),
      Span(Style("s1"), <<Text(<<"a">>)>>),
      Span(Style("s1"), <<Text(<<"b">>)>>),
      Span(Style("s2"), <<Text(<<"a">>)>>),
      Span(NoAttrs, <<Text(<<"a">>)>>),
      Span(Style("s1"), <<Tag("b", NoAttrs, <<>>), Text(<<"c">>)>>),
      Span(Style("s1"), <<Span(Style("s2"), <<Text(<<"a">>)>>)>>),
      Span(Style("s1"), <<Span(Style("s2"), <<Text(<<"b">>)>>)>>) }

\* the parser never yields two adjacent strings
NoAdjacentStrings(sibs) ==
    \A k \in 1..(Len(sibs) - 1) : ~(IsString(sibs[k]) /\ IsString(sibs[k + 1]))

SiblingLists ==
    { sibs \in UNION { [1..n -> MergeItems] : n \in 1..MaxSibs } :
          NoAdjacentStrings(sibs) }

Document(contents) == Tag("[document]", NoAttrs, contents)

\* the child lists of test_merge_consecutive_spans, cases 1, 4 and 5
TestSiblingLists ==
    { << Text(<<"t">>),
         Span(Style("s1"), <<Text(<<"i", "s", " ">>)>>),
         Span(Style("s1"), <<Text(<<"a", " ">>)>>),
         Span(Style("s1"), <<Text(<<"p">>)>>) >>,
      << Span(Style("s1"), <<Text(<<"a">>)>>),
         Span(Style("s1"), <<Text(<<"b">>)>>),
         Text(<<" ", "x", " ">>),
         Span(Style("s2"), <<Text(<<"c">>)>>),
         Span(Style("s2"), <<Text(<<"d">>)>>) >>,
      << Span(Style("s2"), <<Text(<<"I">>)>>),
         Text(<<" ", "\n">>),
         Span(Style("s2"), <<Text(<<"a", "m">>)>>),
         Span(Style("s2"), <<Text(<<" ", "f">>)>>) >> }

\* child lists with line breaks and tabs in the text of the spans and in
\* the separators between them
LineBreakSiblingLists ==
    { << Span(Style("s1"), <<Text(<<"a", "\n">>)>>),
         Text(<<"\t", "\r", "\n", " ">>),
         Span(Style("s1"), <<Text(<<"\r", "b", "\t">>)>>) >>,
      << Span(Style("s1"), <<Text(<<"a", "\n">>)>>),
         Text(<<"\r">>),
         Span(Style("s1"), <<Text(<<"\n">>)>>),
         Text(<<"\t">>),
         Span(Style("s1"), <<Text(<<"b">>)>>) >> }

\* spans that carry other attributes next to, or instead of, style
AttributeItems ==
    { Text(<<" ">>),
      Span(Style("s1"), <<Text(<<"a">>)>>),
      Span(Style("s1") @@ ("class" :> "c1"), <<Text(<<"b">>)>>),
      Span(Style("s1") @@ ("class" :> "c2") @@ ("id" :> "k"), <<Text(<<"c">>)>>),
      Span(Style("s2") @@ ("class" :> "c1"), <<Text(<<"d">>)>>),
      Span(("class" :> "c1"), <<Text(<<"e">>)>>) }

AttributeSiblingLists ==
    { sibs \in UNION { [1..n -> AttributeItems] : n \in 2..MaxSibs } :
          NoAdjacentStrings(sibs) }

MergeInputs ==
    { Document(<<Tag("div", NoAttrs, sibs)>>) :
          sibs \in SiblingLists \cup TestSiblingLists \cup LineBreakSiblingLists
                       \cup AttributeSiblingLists }

DefaultConfig == <<>>

InitMerge ==
    /\ entry \in MergeEntries
    /\ content \in MergeInputs
    /\ malformed = FALSE
    /\ soup = content
    /\ pc = "merge"
    /\ i = 1
    /\ changes_made = FALSE
    /\ calls = 1
    /\ config = DefaultConfig
    /\ n_files = 0
    /\ current_file = 0
    /\ file_idx = 0
    /\ should_cleanup = TRUE
    /\ should_add = FALSE
    /\ before_pass = content
    /\ heading_changed = FALSE
    /\ chapter_added = 0
    /\ counter_in = 1
    /\ chapter_number = 1
    /\ headings = <<>>
    /\ written = {}
    /\ argument = <<>>
    /\ outcome = <<>>
    /\ dialog = NoDialog

NextMerge ==
    \/ MergeSkipUnstyled
    \/ MergeRun
    \/ MergeAdvance
    \/ MergeReturn
    \/ MergeAgain

SpecMerge == InitMerge /\ [][NextMerge]_vars

---------------------------------------------------------------------------
(* Inputs of the pipeline: documents, counters and configurations *)

P(contents) == Tag("p", NoAttrs, contents)

\* a paragraph with a run of two spans, as in the tests of the pipeline
ParagraphWithRun ==
    P(<< Text(<<"t", " ">>),
         Span(Style("s1"), <<Text(<<"a">>)>>),
         Span(Style("s1"), <<Text(<<" ", "b">>)>>),
         Span(NoAttrs, <<Text(<<"c">>)>>) >>)

\* the first element child of body
FirstBlocks ==
    { P(<<>>),
      P(<<Text(<<" ", " ">>)>>),
      P(<<Span(Style("s1"), <<Text(<<" ">>)>>), Text(<<"\n">>),
          Span(Style("s1"), <<Text(<<" ">>)>>)>>),
      P(<<Text(<<"C", "h", "a", "p", "t", "e", "r", " ", "1">>)>>),
      P(<<Text(<<"H", "i">>)>>),
      ParagraphWithRun,
      P(<<Span(Style("s1"), <<Tag("b", NoAttrs, <<>>), Text(<<"c">>)>>),
          Span(Style("s1"), <<Text(<<" ">>)>>)>>),
      Tag("div", NoAttrs, <<Span(Style("s1"), <<Text(<<"a">>)>>),
                            Span(Style("s1"), <<Text(<<"b">>)>>)>>) }

Html(body_contents) ==
    Document(<<Tag("html", NoAttrs, <<Tag("body", NoAttrs, body_contents)>>)>>)

Documents ==
    { Document(<<Tag("html", NoAttrs, <<>>)>>), Html(<<>>), Html(<<Text(<<"\n">>)>>) }
        \cup { Html(<<first>>) : first \in FirstBlocks }
        \cup { Html(<<Text(<<"\n">>), first, Text(<<"\n">>), ParagraphWithRun>>) :
                   first \in FirstBlocks }

\* the documents of a batch
BatchDocuments ==
    { Document(<<Tag("html", NoAttrs, <<>>)>>) }
        \cup { Html(<<Text(<<"\n">>), first, Text(<<"\n">>), ParagraphWithRun>>) :
                   first \in { P(<<>>),
                               P(<<Text(<<"C", "h", "a", "p", "t", "e", "r", " ", "1">>)>>),
                               P(<<Text(<<"H", "i">>)>>),
                               Tag("div", NoAttrs, <<>>) } }

StartNumbers == {1, 5}

NumberingStyles == {StyleNumeric, StyleWords, StyleRoman}

TrailingTexts == {<<>>, <<"-", " ", "X">>}

Prefixes == {Chapter, <<"P", "a", "r", "t">>}

\* configurations handed to process_xhtml_content_with_config directly
CallConfigs ==
    { DefaultConfig, [initial_chapter_text |-> Chapter] }
        \cup [ initial_chapter_text : Prefixes,
               numbering_style : NumberingStyles,
               text_following_number : TrailingTexts,
               insert_heading : BOOLEAN ]

\* configurations returned by ConfigDialog.get_config; a scope is listed
\* only with its checkbox checked, the chapter settings only with theirs
ToolConfigs ==
    { c \in [ cleanup_spans : BOOLEAN,
              cleanup_scope : {AllTextFiles, CurrentFileOnly, CurrentFileOnwards},
              add_chapters : BOOLEAN,
              chapter_scope : {AllTextFiles, CurrentFileOnly, CurrentFileOnwards},
              start_number : StartNumbers,
              initial_chapter_text : {Chapter},
              numbering_style : NumberingStyles,
              text_following_number : {<<>>},
              insert_heading : BOOLEAN ] :
          /\ c.cleanup_spans \/ c.add_chapters
          /\ ~c.cleanup_spans => c.cleanup_scope = AllTextFiles
          /\ ~c.add_chapters =>
                /\ c.chapter_scope = AllTextFiles
                /\ c.start_number = 1
                /\ c.numbering_style = StyleNumeric
                /\ ~c.insert_heading }

EmptyDocument == Document(<<>>)

\* what the recovering parser of 'lxml-xml' builds from text that is not
\* well-formed: nothing at all, or the part it could read
RecoveredDocuments == { EmptyDocument, Html(<<ParagraphWithRun>>) }

\* one call of process_xhtml_content_with_config or process_xhtml_content
InitCall ==
    /\ entry \in {"with_config", "plain_plugin", "plain_script"}
    /\ config \in (IF entry = "with_config" THEN CallConfigs ELSE {DefaultConfig})
    /\ should_cleanup \in (IF entry = "with_config" THEN BOOLEAN ELSE {TRUE})
    /\ should_add \in (IF entry = "with_config" THEN BOOLEAN ELSE {TRUE})
    /\ \/ content \in Documents /\ malformed = FALSE
       \/ content \in RecoveredDocuments /\ malformed = TRUE
    /\ counter_in \in StartNumbers
    /\ soup = content
    /\ before_pass = content
    /\ chapter_number = counter_in
    /\ pc = "call"
    /\ n_files = 0
    /\ current_file = 0
    /\ file_idx = 0
    /\ i = 1
    /\ changes_made = FALSE
    /\ calls = 1
    /\ heading_changed = FALSE
    /\ chapter_added = 0
    /\ headings = <<>>
    /\ written = {}
    /\ argument = <<>>
    /\ outcome = <<>>
    /\ dialog = NoDialog

\* a batch: run_tool after the dialog was accepted, or process_epub
InitBatch ==
    /\ entry \in BatchEntries
    /\ config \in (IF entry = "run_tool" THEN ToolConfigs ELSE {DefaultConfig})
    /\ n_files \in 1..MaxFiles
    /\ current_file \in (IF entry = "run_tool" THEN 0..n_files ELSE {0})
    /\ chapter_number = (IF entry = "run_tool" THEN config["start_number"] ELSE 1)
    /\ file_idx = 1
    /\ pc = "loop"
    /\ content = EmptyDocument
    /\ malformed = FALSE
    /\ soup = EmptyDocument
    /\ before_pass = EmptyDocument
    /\ should_cleanup = FALSE
    /\ should_add = FALSE
    /\ counter_in = chapter_number
    /\ i = 1
    /\ changes_made = FALSE
    /\ calls = 1
    /\ heading_changed = FALSE
    /\ chapter_added = 0
    /\ headings = <<>>
    /\ written = {}
    /\ argument = <<>>
    /\ outcome = <<>>
    /\ dialog = NoDialog

---------------------------------------------------------------------------
(* Direct calls of the pure functions *)

\* the largest number number_to_roman is documented for
MaxRoman == 3999

\* the largest number the dialog lets the user start at
MaxNumber == 9999

\* candidate texts: a lead, a first word, a separator and a tail
RecognizerLeads == { <<>>, <<" ">> }

RecognizerWords ==
    { Chapter, <<"c", "h", "a", "p", "t", "e", "r">>,
      <<"C", "H", "A", "P", "T", "E", "R">>, <<"C", "h", "a", "p", "t", "e">>,
      <<"C", "h", ".">>, <<"C", "h", "x">>, <<"S", "o", "m", "e">> }

RecognizerSeparators == { <<>>, <<" ">>, <<" ", " ">>, <<"\t">>, <<"\n", " ">>, <<"-">> }

RecognizerTails ==
    { <<>>, <<"1">>, <<"4", "2">>, <<"1", "a">>, <<"I">>, <<"i", "v">>, <<"X", "1">>,
      <<"O", "n", "e">>, <<"o", "n", "e">>, <<"O", "N", "E">>, <<"o", "f">>, <<"O">>,
      <<"o">>, <<"-", "1">>, <<"o", "1">>, <<"O", "n", "e", " ", "-", " ", "X">>,
      <<"o", "t", "h", "e", "r", " ", "t", "e", "x", "t">> }

RecognizerPrefixes == { Chapter, <<"C", "h", ".">> }

RecognizerInputs ==
    { [text |-> lead \o word \o sep \o tail \o lead, prefix |-> prefix] :
          lead \in RecognizerLeads, word \in RecognizerWords,
          sep \in RecognizerSeparators, tail \in RecognizerTails,
          prefix \in RecognizerPrefixes }

\* configurations with each style label of the dialog, and without a style
FormatConfigs ==
    { DefaultConfig } \cup { [numbering_style |-> style] : style \in NumberingStyles }

InitPure ==
    /\ entry \in {"is_existing_chapter_heading", "number_to_words", "number_to_roman",
                  "format_chapter_number"}
    /\ argument \in (IF entry = "is_existing_chapter_heading" THEN RecognizerInputs
                      ELSE 1..MaxNumber)
    /\ outcome = <<>>
    /\ dialog = NoDialog
    /\ pc = "pure"
    /\ config \in (IF entry = "format_chapter_number" THEN FormatConfigs
                   ELSE {DefaultConfig})
    /\ n_files = 0
    /\ current_file = 0
    /\ file_idx = 0
    /\ should_cleanup = FALSE
    /\ should_add = FALSE
    /\ content = EmptyDocument
    /\ malformed = FALSE
    /\ soup = EmptyDocument
    /\ before_pass = EmptyDocument
    /\ i = 1
    /\ changes_made = FALSE
    /\ calls = 1
    /\ heading_changed = FALSE
    /\ chapter_added = 0
    /\ counter_in = 1
    /\ chapter_number = 1
    /\ headings = <<>>
    /\ written = {}

engineVars == <<callVars, headingVars, file_idx, soup, i, changes_made, calls,
                before_pass, chapter_number, headings, written>>

Recognize ==
    /\ pc = "pure"
    /\ entry = "is_existing_chapter_heading"
    /\ outcome' = is_existing_chapter_heading(argument.text, argument.prefix)
    /\ pc' = "value"
    /\ UNCHANGED <<entry, config, n_files, current_file, argument, dialog,
                   engineVars>>

ToWords ==
    /\ pc = "pure"
    /\ entry = "number_to_words"
    /\ outcome' = number_to_words(argument)
    /\ pc' = "value"
    /\ UNCHANGED <<entry, config, n_files, current_file, argument, dialog,
                   engineVars>>

ToRoman ==
    /\ pc = "pure"
    /\ entry = "number_to_roman"
    /\ outcome' = number_to_roman(argument)
    /\ pc' = "value"
    /\ UNCHANGED <<entry, config, n_files, current_file, argument, dialog,
                   engineVars>>

\* format_chapter_number as process_xhtml_content_with_config calls it
FormatNumber ==
    /\ pc = "pure"
    /\ entry = "format_chapter_number"
    /\ outcome' = format_chapter_number(argument,
                      Get(config, "numbering_style", StyleNumeric))
    /\ pc' = "value"
    /\ UNCHANGED <<entry, config, n_files, current_file, argument, dialog,
                   engineVars>>

NextPure == Recognize \/ ToWords \/ ToRoman \/ FormatNumber

SpecPure == InitPure /\ [][NextPure]_vars

---------------------------------------------------------------------------
(* Processing a document a second time *)

\* the counters tried: every number up to 100 and some larger ones
ReprocessNumbers == (1..100) \cup {500, 1000, 1994, MaxRoman}

\* configurations with insert-even-if-non-empty enabled
ReprocessConfigs ==
    [ initial_chapter_text : Prefixes,
      numbering_style : NumberingStyles,
      text_following_number : TrailingTexts,
      insert_heading : {TRUE} ]

\* process_xhtml_content_with_config on a document with an empty first
\* paragraph, headings only
InitReprocess ==
    /\ entry = "with_config"
    /\ config \in ReprocessConfigs
    /\ should_cleanup = FALSE
    /\ should_add = TRUE
    /\ content = Html(<<Text(<<"\n">>), P(<<>>), Text(<<"\n">>), P(<<Text(<<"H", "i">>)>>)>>)
    /\ malformed = FALSE
    /\ counter_in \in ReprocessNumbers
    /\ soup = content
    /\ before_pass = content
    /\ chapter_number = counter_in
    /\ pc = "call"
    /\ n_files = 0
    /\ current_file = 0
    /\ file_idx = 0
    /\ i = 1
    /\ changes_made = FALSE
    /\ calls = 1
    /\ heading_changed = FALSE
    /\ chapter_added = 0
    /\ headings = <<>>
    /\ written = {}
    /\ argument = <<>>
    /\ outcome = <<>>
    /\ dialog = NoDialog

\* the text and the counter that the first call returned are handed to a
\* second call with the same configuration
Reprocess ==
    /\ pc = "done"
    /\ calls = 1
    /\ calls' = 2
    /\ content' = soup
    /\ before_pass' = soup
    /\ counter_in' = chapter_number
    /\ heading_changed' = FALSE
    /\ chapter_added' = 0
    /\ pc' = "call"
    /\ UNCHANGED <<batchVars, should_cleanup, should_add, malformed, file_idx,
                   soup, i, changes_made, chapter_number, headings, written>>

NextReprocess ==
    \/ ProcessStart
    \/ HeadingPass
    \/ ReplacePlaceholder
    \/ Return
    \/ Reprocess

SpecReprocess == InitReprocess /\ [][NextReprocess]_vars

---------------------------------------------------------------------------
(* The specifications of the engine *)

\* the steps of one call of the engine
---------------------------------------------------------------------------
(* The configuration dialog: ConfigDialog *)

\* current_file_content is None
NoContent == [kind |-> "none"]

\* int() of a string of decimal digits
RECURSIVE int(_)
int(s) ==
    IF s = <<>> THEN 0
    ELSE 10 * int(SubSeq(s, 1, Len(s) - 1))
             + (CHOOSE d \in 0..9 : Digits[d + 1] = s[Len(s)])

\* the longest run of digits of s that starts at position a
RECURSIVE DigitRunAt(_, _)
DigitRunAt(s, a) ==
    IF a > Len(s) \/ ~IsDigit(s[a]) THEN <<>>
    ELSE <<s[a]>> \o DigitRunAt(s, a + 1)

\* group 1 of re.search(r'(\d+)', s); <<>> when there is no match
RECURSIVE SearchDigits(_, _)
SearchDigits(s, a) ==
    IF a > Len(s) THEN <<>>
    ELSE IF IsDigit(s[a]) THEN DigitRunAt(s, a)
    ELSE SearchDigits(s, a + 1)

RECURSIVE SkipWhitespace(_, _)
SkipWhitespace(s, a) ==
    IF a <= Len(s) /\ s[a] \in Whitespace THEN SkipWhitespace(s, a + 1) ELSE a

\* group 1 of re.match(r'Chapter\s+(\d+)', s[a:], re.IGNORECASE)
MatchChapterAt(s, a) ==
    IF \/ a + Len(Chapter) - 1 > Len(s)
       \/ \E k \in 1..Len(Chapter) : Fold(s[a + k - 1]) # Fold(Chapter[k])
    THEN <<>>
    ELSE IF SkipWhitespace(s, a + Len(Chapter)) = a + Len(Chapter) THEN <<>>
    ELSE DigitRunAt(s, SkipWhitespace(s, a + Len(Chapter)))

\* group 1 of re.search(r'Chapter\s+(\d+)', s, re.IGNORECASE)
RECURSIVE SearchChapter(_, _)
SearchChapter(s, a) ==
    IF a > Len(s) THEN <<>>
    ELSE IF MatchChapterAt(s, a) # <<>> THEN MatchChapterAt(s, a)
    ELSE SearchChapter(s, a + 1)

\* `for child in body.children: if ... child.name == 'p'`: the position of
\* the first child that is a p element, 0 when there is none
first_p(body) ==
    IF \E k \in 1..Len(body.contents) :
           IsTag(body.contents[k]) /\ body.contents[k].name = "p"
    THEN CHOOSE k \in 1..Len(body.contents) :
             /\ IsTag(body.contents[k]) /\ body.contents[k].name = "p"
             /\ \A m \in 1..(k - 1) :
                   ~(IsTag(body.contents[m]) /\ body.contents[m].name = "p")
    ELSE 0

\* the digits found in the content, <<>> when nothing is found
ContentDigits(current_file_content) ==
    IF current_file_content = NoContent THEN <<>>
    ELSE IF find(current_file_content, "body") = NotFound THEN <<>>
    ELSE LET body == NodeAt(current_file_content, find(current_file_content, "body"))
         IN  IF first_p(body) = 0 THEN <<>>
             ELSE SearchChapter(Strip(get_text(body.contents[first_p(body)])), 1)

\* detect_chapter_number that looks at the content before the file name
detect_chapter_number_ContentFirst(current_file_name, current_file_content) ==
    IF ContentDigits(current_file_content) # <<>>
    THEN int(ContentDigits(current_file_content))
    ELSE IF SearchDigits(current_file_name, 1) # <<>>
    THEN int(SearchDigits(current_file_name, 1))
    ELSE 1

detect_chapter_number(current_file_name, current_file_content) ==
    IF SearchDigits(current_file_name, 1) # <<>>
    THEN int(SearchDigits(current_file_name, 1))
    ELSE IF ContentDigits(current_file_content) # <<>>
    THEN int(ContentDigits(current_file_content))
    ELSE 1

\* QSpinBox.setValue with setMinimum(1) and setMaximum(9999): a value
\* outside the range is set to the nearest end of it
setValue(v) == IF v < 1 THEN 1 ELSE IF v > MaxNumber THEN MaxNumber ELSE v

chapter_controls ==
    {"chapter_scope_combo", "start_number_spin", "initial_chapter_text",
     "numbering_style_combo", "text_following_number", "insert_heading_checkbox"}

Controls == chapter_controls \cup {"cleanup_scope_combo", "apply_button"}

\* the widgets as setup_ui leaves them: check boxes unchecked, combo boxes
\* on their first item, every widget enabled
setup_ui(current_file_name, current_file_content) ==
    [ cleanup_checkbox |-> FALSE,
      cleanup_scope_combo |-> AllTextFiles,
      chapter_checkbox |-> FALSE,
      chapter_scope_combo |-> AllTextFiles,
      start_number_spin |->
          setValue(detect_chapter_number(current_file_name, current_file_content)),
      insert_heading_checkbox |-> FALSE,
      enabled |-> [c \in Controls |-> TRUE] ]

\* update_control_states that leaves the Apply button alone
update_control_states_KeepsApply(d) ==
    [d EXCEPT !.enabled =
        [c \in Controls |->
            IF c = "cleanup_scope_combo" THEN d.cleanup_checkbox
            ELSE IF c \in chapter_controls THEN d.chapter_checkbox
            ELSE d.enabled[c]]]

update_control_states(d) ==
    [d EXCEPT !.enabled =
        [c \in Controls |->
            IF c = "cleanup_scope_combo" THEN d.cleanup_checkbox
            ELSE IF c \in chapter_controls THEN d.chapter_checkbox
            ELSE d.cleanup_checkbox \/ d.chapter_checkbox]]

\* the dictionary of get_config; the text fields hold the defaults of prefs
get_config(d) ==
    [ cleanup_spans |-> d.cleanup_checkbox,
      cleanup_scope |-> d.cleanup_scope_combo,
      add_chapters |-> d.chapter_checkbox,
      chapter_scope |-> d.chapter_scope_combo,
      start_number |-> d.start_number_spin,
      initial_chapter_text |-> Chapter,
      numbering_style |-> StyleNumeric,
      text_following_number |-> <<>>,
      insert_heading |-> d.insert_heading_checkbox ]

\* names of the file open in the editor; <<>> is no name
FileNames ==
    { <<>>,
      <<"c", "h", "a", "p", "t", "e", "r", "_", "5", ".", "x", "h", "t", "m", "l">>,
      <<"t", "e", "s", "t", ".", "x", "h", "t", "m", "l">>,
      <<"c", "h", "a", "p", "t", "e", "r", "_", "0", ".", "x", "h", "t", "m", "l">>,
      <<"c", "h", "1", "2", "x", "3", "4", ".", "h", "t", "m", "l">>,
      <<"p", "1", "0", "0", "0", "0", ".", "h", "t", "m", "l">>,
      <<"0", "0", "7", ".", "x", "h", "t", "m", "l">> }

\* contents of the file open in the editor
FileContents ==
    { NoContent,
      Document(<<Tag("html", NoAttrs, <<>>)>>),
      Html(<<Text(<<"\n">>), P(<<Text(<<"C", "h", "a", "p", "t", "e", "r", " ", "3">>)>>), Text(<<"\n">>),
             P(<<Text(<<"S", "o", "m", "e", " ", "c", "o", "n", "t", "e", "n", "t">>)>>), Text(<<"\n">>)>>),
      Html(<<Tag("div", NoAttrs, <<Text(<<"C", "h", "a", "p", "t", "e", "r", " ", "8">>)>>),
             P(<<Text(<<" ", "s", "e", "e", " ", "c", "h", "a", "p", "t", "e", "r", " ", "\n", "1", "2", "a">>)>>),
             P(<<Text(<<"C", "h", "a", "p", "t", "e", "r", " ", "4">>)>>)>>),
      Html(<<P(<<Text(<<"C", "h", "a", "p", "t", "e", "r", " ", "0">>)>>)>>),
      Html(<<P(<<Text(<<"C", "h", "a", "p", "t", "e", "r", " ", "1", "2", "3", "4", "5">>)>>)>>),
      Html(<<P(<<Text(<<"C", "h", "a", "p", "t", "e", "r", " ", "T", "w", "o">>)>>)>>),
      Html(<<P(<<Text(<<"C", "h", "a", "p", "t", "e", "r", "7">>)>>)>>) }

\* numbers the user enters into the start-number control
EditedNumbers == {1, 2, MaxNumber}

Scopes == {AllTextFiles, CurrentFileOnly, CurrentFileOnwards}

\* run_tool is about to build the dialog for the file open in the editor
InitDialog ==
    /\ entry = "dialog"
    /\ pc = "construct"
    /\ argument \in [current_file_name : FileNames,
                     current_file_content : FileContents]
    /\ dialog = NoDialog
    /\ outcome = <<>>
    /\ config = DefaultConfig
    /\ n_files = 0
    /\ current_file = 0
    /\ file_idx = 0
    /\ should_cleanup = FALSE
    /\ should_add = FALSE
    /\ content = EmptyDocument
    /\ malformed = FALSE
    /\ soup = EmptyDocument
    /\ before_pass = EmptyDocument
    /\ i = 1
    /\ changes_made = FALSE
    /\ calls = 1
    /\ heading_changed = FALSE
    /\ chapter_added = 0
    /\ counter_in = 1
    /\ chapter_number = 1
    /\ headings = <<>>
    /\ written = {}

dialogFrame == <<entry, config, n_files, current_file, argument, outcome,
                 engineVars>>

\* ConfigDialog.__init__: setup_ui, load_preferences, update_control_states
Construct ==
    /\ pc = "construct"
    /\ dialog' = update_control_states(
                     setup_ui(argument.current_file_name,
                              argument.current_file_content))
    /\ pc' = "dialog"
    /\ UNCHANGED dialogFrame

\* cleanup_checkbox.stateChanged is connected to update_control_states
ToggleCleanup ==
    /\ pc = "dialog"
    /\ dialog' = update_control_states(
                     [dialog EXCEPT !.cleanup_checkbox = ~dialog.cleanup_checkbox])
    /\ UNCHANGED <<dialogFrame, pc>>

\* chapter_checkbox.stateChanged is connected to update_control_states
ToggleChapter ==
    /\ pc = "dialog"
    /\ dialog' = update_control_states(
                     [dialog EXCEPT !.chapter_checkbox = ~dialog.chapter_checkbox])
    /\ UNCHANGED <<dialogFrame, pc>>

\* the user can change a control only while it is enabled
ToggleInsertHeading ==
    /\ pc = "dialog"
    /\ dialog.enabled["insert_heading_checkbox"]
    /\ dialog' = [dialog EXCEPT !.insert_heading_checkbox =
                                    ~dialog.insert_heading_checkbox]
    /\ UNCHANGED <<dialogFrame, pc>>

SelectCleanupScope ==
    /\ pc = "dialog"
    /\ dialog.enabled["cleanup_scope_combo"]
    /\ \E scope \in Scopes : dialog' = [dialog EXCEPT !.cleanup_scope_combo = scope]
    /\ UNCHANGED <<dialogFrame, pc>>

SelectChapterScope ==
    /\ pc = "dialog"
    /\ dialog.enabled["chapter_scope_combo"]
    /\ \E scope \in Scopes : dialog' = [dialog EXCEPT !.chapter_scope_combo = scope]
    /\ UNCHANGED <<dialogFrame, pc>>

EditStartNumber ==
    /\ pc = "dialog"
    /\ dialog.enabled["start_number_spin"]
    /\ \E v \in EditedNumbers :
           dialog' = [dialog EXCEPT !.start_number_spin = setValue(v)]
    /\ UNCHANGED <<dialogFrame, pc>>

\* the Apply button: accept(), then run_tool reads get_config()
Accept ==
    /\ pc = "dialog"
    /\ dialog.enabled["apply_button"]
    /\ config' = get_config(dialog)
    /\ pc' = "accepted"
    /\ UNCHANGED <<entry, n_files, current_file, pureVars, engineVars>>

\* the Cancel button
Reject ==
    /\ pc = "dialog"
    /\ pc' = "rejected"
    /\ UNCHANGED <<batchVars, engineVars>>

NextDialog ==
    \/ Construct
    \/ ToggleCleanup
    \/ ToggleChapter
    \/ ToggleInsertHeading
    \/ SelectCleanupScope
    \/ SelectChapterScope
    \/ EditStartNumber
    \/ Accept
    \/ Reject

SpecDialog == InitDialog /\ [][NextDialog]_vars

---------------------------------------------------------------------------
(* The fixed pipeline, then the configurable one on the same input *)

\* process_xhtml_content(content, n) on a well-formed document
InitBothPipelines ==
    /\ entry = "plain_plugin"
    /\ config = DefaultConfig
    /\ should_cleanup = TRUE
    /\ should_add = TRUE
    /\ content \in Documents
    /\ malformed = FALSE
    /\ counter_in \in StartNumbers
    /\ soup = content
    /\ before_pass = content
    /\ chapter_number = counter_in
    /\ pc = "call"
    /\ n_files = 0
    /\ current_file = 0
    /\ file_idx = 0
    /\ i = 1
    /\ changes_made = FALSE
    /\ calls = 1
    /\ heading_changed = FALSE
    /\ chapter_added = 0
    /\ headings = <<>>
    /\ written = {}
    /\ argument = <<>>
    /\ outcome = <<>>
    /\ dialog = NoDialog

\* keep what process_xhtml_content returned and call
\* process_xhtml_content_with_config(content, n, {}, True, True)
CallWithConfig ==
    /\ pc = "done"
    /\ calls = 1
    /\ entry = "plain_plugin"
    /\ outcome' = <<soup, chapter_number>>
    /\ entry' = "with_config"
    /\ calls' = 2
    /\ soup' = content
    /\ before_pass' = content
    /\ chapter_number' = counter_in
    /\ heading_changed' = FALSE
    /\ chapter_added' = 0
    /\ pc' = "call"
    /\ UNCHANGED <<config, n_files, current_file, argument, dialog, callVars,
                   file_idx, i, changes_made, headings, written>>

NextBothPipelines ==
    \/ ProcessStart
    \/ MergeSkipUnstyled
    \/ MergeRun
    \/ MergeAdvance
    \/ MergeReturn
    \/ HeadingPass
    \/ ReplacePlaceholder
    \/ Return
    \/ CallWithConfig

SpecBothPipelines == InitBothPipelines /\ [][NextBothPipelines]_vars

Process ==
    \/ ProcessStart
    \/ ParseRejected
    \/ MergeSkipUnstyled
    \/ MergeRun
    \/ MergeAdvance
    \/ MergeReturn
    \/ HeadingPass
    \/ ReplacePlaceholder

Init == InitCall

Next == Process \/ Return

\* single calls of the two process functions
Spec == Init /\ [][Next]_vars

NextBatch ==
    \/ LoopSkip
    \/ \E doc \in BatchDocuments : LoopCall(doc, FALSE)
    \/ \E doc \in RecoveredDocuments : LoopCall(doc, TRUE)
    \/ Process
    \/ WriteBack
    \/ LoopEnd

\* batches of documents
SpecBatch == InitBatch /\ [][NextBatch]_vars

---------------------------------------------------------------------------
(* Properties *)

\* the child list of the parent element of a merge input
TopList(tree) == tree.contents[1].contents

StyledSpan(n) == IsTag(n) /\ n.name = "span" /\ has_attr(n, "style")

TextOnly(n) == \A k \in 1..Len(n.contents) : IsString(n.contents[k])

\* positions a <= b of one child list lie in the same contiguous run: both
\* are styled spans and everything from a to b is a span of that very style
\* or whitespace-only text
Linked(sibs, a, b) ==
    /\ a <= b
    /\ StyledSpan(sibs[a])
    /\ StyledSpan(sibs[b])
    /\ \A m \in a..b :
          \/ IsString(sibs[m]) /\ IsBlank(sibs[m].s)
          \/ StyledSpan(sibs[m]) /\ sibs[m].attrs["style"] = sibs[a].attrs["style"]

RunEnd(sibs, a) ==
    CHOOSE b \in a..Len(sibs) :
        Linked(sibs, a, b) /\ \A c \in (b + 1)..Len(sibs) : ~Linked(sibs, a, c)

\* a child list cut into its maximal runs and its other nodes, each as
\* <<first, last>>, in order
RECURSIVE Groups(_, _)
Groups(sibs, a) ==
    IF a > Len(sibs) THEN <<>>
    ELSE IF StyledSpan(sibs[a])
    THEN <<<<a, RunEnd(sibs, a)>>>> \o Groups(sibs, RunEnd(sibs, a) + 1)
    ELSE <<<<a, a>>>> \o Groups(sibs, a + 1)

\* some child list at or below n holds a run of more than one span
RECURSIVE HasRun(_)
HasRun(n) ==
    /\ IsTag(n)
    /\ \/ \E a, b \in 1..Len(n.contents) : a < b /\ Linked(n.contents, a, b)
       \/ \E k \in 1..Len(n.contents) : HasRun(n.contents[k])

LineBreaksAsSpaces(s) == [k \in 1..Len(s) |-> IF s[k] \in {"\n", "\r"} THEN " " ELSE s[k]]

\* the text of the nodes a..b of a child list, separators with their line
\* breaks rendered as spaces
RunText(sibs, a, b) ==
    Flatten([m \in 1..(b - a + 1) |->
        IF IsTag(sibs[a + m - 1]) THEN get_text(sibs[a + m - 1])
        ELSE LineBreaksAsSpaces(sibs[a + m - 1].s)])

\* the children of the spans a..b of a child list with the separators
\* between them, in tree order
RunContents(sibs, a, b) ==
    Flatten([m \in 1..(b - a + 1) |->
        IF IsTag(sibs[a + m - 1]) THEN sibs[a + m - 1].contents
        ELSE <<NavigableString(LineBreaksAsSpaces(sibs[a + m - 1].s))>>])

MergeDone == pc = "merged" /\ calls = 1

\* C1: every run of N >= 1 same-style sibling spans with only text children,
\* separated only by whitespace, is replaced by exactly one span in its place
\* whose text is the concatenation of the N texts and of the separators
\* between them, line breaks of separators rendered as spaces.
C1_RunBecomesOneSpan ==
    (MergeDone /\ entry = "merge_plugin") =>
        LET before == TopList(content)
            after == TopList(soup)
            groups == Groups(before, 1)
        IN  /\ Len(after) = Len(groups)
            /\ \A r \in 1..Len(groups) :
                  LET a == groups[r][1]
                      b == groups[r][2]
                  IN  (/\ StyledSpan(before[a])
                       /\ \A m \in a..b : IsTag(before[m]) => TextOnly(before[m]))
                      => /\ StyledSpan(after[r])
                         /\ get_text(after[r]) = RunText(before, a, b)

\* C2: a merge leaves in the surviving first span exactly the children of
\* every span of the run and the normalized separators between them, in
\* tree order: nothing dropped, duplicated or reordered.
C2_ChildrenPreserved ==
    [][(MergeRun /\ entry = "merge_plugin") =>
          LET path == spans[i]
              sibs == Siblings(soup, path)
              k == path[Len(path)]
          IN  NodeAt(soup', path).contents = RunContents(sibs, k, RunEnd(sibs, k))]_vars

\* C3: spans that are not in the same contiguous run are never merged: the
\* child list keeps one node per run and per other node, a span that is a
\* run of its own is left as it was, and a tree without any run of two or
\* more spans is left unchanged.
C3_NoMergeAcrossRuns ==
    MergeDone =>
        LET before == TopList(content)
            after == TopList(soup)
            groups == Groups(before, 1)
        IN  /\ Len(after) = Len(groups)
            /\ \A r \in 1..Len(groups) :
                  LET a == groups[r][1]
                  IN  /\ StyledSpan(before[a]) =>
                            /\ StyledSpan(after[r])
                            /\ after[r].attrs = before[a].attrs
                      /\ (groups[r][2] = a /\ ~HasRun(before[a])) => after[r] = before[a]
            /\ ~HasRun(content) => (soup = content /\ ~changes_made)

\* two spans of the same style that stand in different runs of the input
C3_Witness ==
    /\ MergeDone
    /\ \E a, b \in 1..Len(TopList(content)) :
          /\ a < b
          /\ StyledSpan(TopList(content)[a])
          /\ StyledSpan(TopList(content)[b])
          /\ TopList(content)[a].attrs = TopList(content)[b].attrs
          /\ ~Linked(TopList(content), a, b)
    /\ Len(find_all(soup, "span")) = Len(find_all(content, "span"))

\* C4: after one call no run of two or more spans is left anywhere in the
\* tree, and a second call returns false and changes nothing.
C4_Idempotent ==
    /\ pc = "merged" => ~HasRun(soup)
    /\ (pc = "merged" /\ calls = 2) => (~changes_made /\ soup = before_pass)

\* the second call has returned on a tree in which the first call merged two
\* outer spans and then the nested spans that this brought side by side
C4_Witness ==
    /\ pc = "merged"
    /\ calls = 2
    /\ TopList(content) = << Span(Style("s1"), <<Span(Style("s2"), <<Text(<<"a">>)>>)>>),
                             Span(Style("s1"), <<Span(Style("s2"), <<Text(<<"b">>)>>)>>) >>
    /\ TopList(soup) = << Span(Style("s1"),
                               <<Span(Style("s2"), <<Text(<<"a">>), Text(<<"b">>)>>)>>) >>


HasBody(tree) == find(tree, "body") # NotFound

BodyOf(tree) == NodeAt(tree, find(tree, "body"))

FirstElementPath(tree) == find(tree, "body") \o <<FirstTagChild(BodyOf(tree))>>

FirstElement(tree) == NodeAt(tree, FirstElementPath(tree))

\* the first element child of body is a paragraph
FirstIsParagraph(tree) ==
    /\ HasBody(tree)
    /\ FirstTagChild(BodyOf(tree)) # 0
    /\ FirstElement(tree).name = "p"

\* state Empty of the heading inserter
EmptyState(tree) == FirstIsParagraph(tree) /\ IsBlank(get_text(FirstElement(tree)))

\* the first paragraph has text and the recognizer matches it or not
NonEmptyState(tree, recognized) ==
    /\ FirstIsParagraph(tree)
    /\ ~IsBlank(get_text(FirstElement(tree)))
    /\ recognized = is_existing_chapter_heading(get_text(FirstElement(tree)),
                        Get(config, "initial_chapter_text", Chapter))

HeadingEnabled == entry \notin ConfigEntries \/ should_add

InsertEnabled == entry \in ConfigEntries /\ should_add /\ Get(config, "insert_heading", FALSE)

Returned == pc = "return"

DefaultHeadingFormat ==
    /\ Get(config, "initial_chapter_text", Chapter) = Chapter
    /\ Get(config, "numbering_style", StyleNumeric) = StyleNumeric
    /\ Get(config, "text_following_number", <<>>) = <<>>

\* C5: an empty or whitespace-only first paragraph is cleared and given the
\* heading built for the current counter (Chapter 5 for prefix Chapter,
\* numeric style, counter 5); one heading is reported, the counter returned
\* is counter + 1 and no paragraph is added or removed.
C5_EmptyParagraphBecomesHeading ==
    (Returned /\ HeadingEnabled /\ EmptyState(content)) =>
        /\ EmptyState(before_pass)
        /\ soup = ReplaceAt(before_pass, FirstElementPath(before_pass),
                      [FirstElement(before_pass) EXCEPT
                           !.contents = <<NavigableString(HeadingFor(counter_in))>>])
        /\ heading_changed
        /\ chapter_added = 1
        /\ chapter_number = counter_in + 1
        /\ Len(find_all(soup, "p")) = Len(find_all(content, "p"))
        /\ (counter_in = 5 /\ DefaultHeadingFormat) =>
               get_text(FirstElement(soup)) = <<"C", "h", "a", "p", "t", "e", "r", " ", "5">>

\* a whitespace-only first paragraph that held spans now reads Chapter 5
C5_Witness ==
    /\ Returned
    /\ entry = "with_config"
    /\ EmptyState(content)
    /\ find_all(FirstElement(content), "span") # <<>>
    /\ counter_in = 5
    /\ chapter_number = 6
    /\ FirstElement(soup) = P(<<Text(<<"C", "h", "a", "p", "t", "e", "r", " ", "5">>)>>)

\* C6: with insert-even-if-non-empty enabled, before a first paragraph with
\* text that the recognizer does not match exactly one new paragraph holding
\* the built heading is inserted; the original paragraph and the rest are
\* unchanged, one heading is reported and the counter returned is counter + 1.
C6_HeadingInsertedBeforePlain ==
    (Returned /\ InsertEnabled /\ NonEmptyState(before_pass, FALSE)) =>
        LET body == BodyOf(before_pass)
            k == FirstTagChild(body)
            new_body == BodyOf(soup)
        IN  /\ Len(new_body.contents) = Len(body.contents) + 1
            /\ new_body.contents[k] = P(<<Text(HeadingFor(counter_in))>>)
            /\ \A m \in 1..Len(body.contents) :
                  new_body.contents[IF m < k THEN m ELSE m + 1] = body.contents[m]
            /\ soup = ReplaceAt(before_pass, find(before_pass, "body"),
                          [body EXCEPT !.contents = new_body.contents])
            /\ heading_changed
            /\ chapter_added = 1
            /\ chapter_number = counter_in + 1

\* a heading paragraph stands before the unchanged paragraph Hi
C6_Witness ==
    /\ Returned
    /\ InsertEnabled
    /\ NonEmptyState(before_pass, FALSE)
    /\ FirstElement(before_pass) = P(<<Text(<<"H", "i">>)>>)
    /\ FirstTagChild(BodyOf(before_pass)) = 2
    /\ BodyOf(soup).contents[3] = P(<<Text(<<"H", "i">>)>>)
    /\ Len(find_all(soup, "p")) = Len(find_all(before_pass, "p")) + 1

\* C7: a first paragraph whose text the recognizer matches is left alone:
\* nothing changes, changed = false, produced = 0 and the counter is
\* returned as it came, also with insert-even-if-non-empty enabled.
C7_RecognizedHeadingLeftAlone ==
    (Returned /\ HeadingEnabled /\ NonEmptyState(before_pass, TRUE)) =>
        /\ soup = before_pass
        /\ ~heading_changed
        /\ chapter_added = 0
        /\ chapter_number = counter_in

\* the first paragraph reads Chapter 1 and insert-even-if-non-empty is on
C7_Witness ==
    /\ Returned
    /\ InsertEnabled
    /\ FirstIsParagraph(content)
    /\ get_text(FirstElement(content)) = <<"C", "h", "a", "p", "t", "e", "r", " ", "1">>
    /\ Get(config, "initial_chapter_text", Chapter) = Chapter
    /\ soup = before_pass

\* the heading pass has written the heading of the current counter
HeadingWritten ==
    /\ soup # before_pass
    /\ FirstIsParagraph(soup)
    /\ FirstElement(soup).contents = <<Text(HeadingFor(counter_in))>>
    /\ Len(find_all(soup, "p")) <= Len(find_all(before_pass, "p")) + 1

\* C8: a call returns the counter it was given or that counter + 1, and
\* counter + 1 exactly when a heading was written into the document; at most
\* one heading is written per document.
C8_CounterStep ==
    Returned =>
        /\ chapter_number \in {counter_in, counter_in + 1}
        /\ chapter_number = counter_in + 1 <=> HeadingWritten
        /\ chapter_number = counter_in <=> soup = before_pass

\* the fixed pipeline returns 6 for counter 5
C8_Witness ==
    /\ Returned
    /\ entry \in {"plain_plugin", "plain_script"}
    /\ counter_in = 5
    /\ chapter_number = 6
    /\ HeadingWritten

StartNumber == IF entry = "run_tool" THEN config["start_number"] ELSE 1

\* C9: in a batch the k-th heading written carries the number
\* start + k - 1, and a document that gets no heading consumes no number.
C9_ConsecutiveNumbers ==
    entry \in BatchEntries =>
        /\ \A k \in 1..Len(headings) : headings[k] = HeadingFor(StartNumber + k - 1)
        /\ chapter_number = StartNumber + Len(headings)
        /\ (Returned /\ soup = before_pass) => chapter_number = counter_in

\* the second document of a batch that starts at 5 got the heading Chapter 6
C9_Witness ==
    /\ entry = "run_tool"
    /\ Returned
    /\ config["start_number"] = 5
    /\ written = {1}
    /\ Len(headings) = 2
    /\ FirstElement(soup) = P(<<Text(<<"C", "h", "a", "p", "t", "e", "r", " ", "6">>)>>)

\* the span elements of a tree, in document order
SpanStructure(tree) ==
    [k \in 1..Len(find_all(tree, "span")) |-> NodeAt(tree, find_all(tree, "span")[k])]

\* the spans outside the first element child of body
SpansOutsideFirst(tree) ==
    LET paths == SelectSeq(find_all(tree, "span"),
                     LAMBDA path : SubSeq(path, 1, Len(FirstElementPath(tree)))
                                       # FirstElementPath(tree))
    IN  [k \in 1..Len(paths) |-> NodeAt(tree, paths[k])]

\* C10 as stated: with should_cleanup = false the span structure of the
\* document is unchanged; with should_add_chapters = false no heading is
\* written and the counter is unchanged while spans are still merged.
C10_Original ==
    (Returned /\ entry \in ConfigEntries) =>
        /\ ~should_cleanup => SpanStructure(soup) = SpanStructure(content)
        /\ ~should_add =>
              /\ soup = before_pass
              /\ chapter_number = counter_in
              /\ should_cleanup => ~HasRun(soup)

\* C10 as amended: with should_cleanup = false no span is merged and the
\* only spans that disappear are those of an empty first paragraph that the
\* heading pass clears.
C10_PassesIndependent ==
    (Returned /\ entry \in ConfigEntries) =>
        /\ ~should_cleanup =>
              /\ before_pass = content
              /\ IF should_add /\ EmptyState(content)
                 THEN /\ SpanStructure(soup) = SpansOutsideFirst(content)
                      /\ chapter_number = counter_in + 1
                 ELSE SpanStructure(soup) = SpanStructure(content)
              /\ (should_add /\ InsertEnabled /\ NonEmptyState(content, FALSE)) =>
                     chapter_number = counter_in + 1
        /\ ~should_add =>
              /\ soup = before_pass
              /\ ~heading_changed
              /\ chapter_number = counter_in
              /\ should_cleanup => ~HasRun(soup)

\* a call without clean-up wrote a heading and left a run of spans unmerged
C10_Witness ==
    /\ Returned
    /\ entry = "with_config"
    /\ ~should_cleanup
    /\ should_add
    /\ HasRun(soup)
    /\ chapter_number = counter_in + 1
    /\ SpanStructure(soup) = SpanStructure(content)

---------------------------------------------------------------------------
(* Parse failures *)

\* C11: a document whose text cannot be parsed makes the call report an
\* error instead of returning transformed text, so the batch never writes a
\* transformed result over an unparsable document.
C11_ParseErrorReported ==
    /\ pc = "return" => ~malformed
    /\ (pc = "loop" /\ (file_idx - 1) \in written) => ~malformed

---------------------------------------------------------------------------
(* The result flag of merge_consecutive_spans *)

\* C12: merge_consecutive_spans returns true exactly when the tree it was
\* given held a run of more than one span, which it then collapsed (fewer
\* spans are left); on a tree without such a run it returns false and
\* leaves the tree as it was.
C12_ReturnsWhetherMerged ==
    pc = "merged" =>
        /\ changes_made <=> HasRun(before_pass)
        /\ changes_made =>
              Len(find_all(soup, "span")) < Len(find_all(before_pass, "span"))
        /\ ~changes_made => soup = before_pass

\* the first call returned false on a tree with several spans and no run
C12_Witness ==
    /\ MergeDone
    /\ ~changes_made
    /\ soup = content
    /\ Len(find_all(content, "span")) >= 2

---------------------------------------------------------------------------
(* Spans without a style attribute *)

UnstyledSpan(n) == IsTag(n) /\ n.name = "span" /\ ~has_attr(n, "style")

\* the group of Groups(sibs, 1) that holds position pos
GroupOf(sibs, pos) ==
    CHOOSE r \in 1..Len(Groups(sibs, 1)) :
        Groups(sibs, 1)[r][1] <= pos /\ pos <= Groups(sibs, 1)[r][2]

\* C13: a span without a style attribute is never merged: it is found
\* unchanged at its place after the call, also next to other such spans,
\* and styled spans on either side of it stay two separate spans.
C13_UnstyledNeverMerged ==
    MergeDone =>
        LET before == TopList(content)
            after == TopList(soup)
        IN  /\ Len(after) = Len(Groups(before, 1))
            /\ \A b \in 1..Len(before) :
                  UnstyledSpan(before[b]) =>
                      /\ after[GroupOf(before, b)] = before[b]
                      /\ \A a \in 1..(b - 1), c \in (b + 1)..Len(before) :
                            (StyledSpan(before[a]) /\ StyledSpan(before[c])) =>
                                /\ GroupOf(before, a) < GroupOf(before, b)
                                /\ GroupOf(before, b) < GroupOf(before, c)
                                /\ StyledSpan(after[GroupOf(before, a)])
                                /\ StyledSpan(after[GroupOf(before, c)])

\* a span without style between two spans of one style: nothing was merged
C13_Witness ==
    /\ MergeDone
    /\ TopList(content) = << Span(Style("s1"), <<Text(<<"a">>)>>),
                             Span(NoAttrs, <<Text(<<"a">>)>>),
                             Span(Style("s1"), <<Text(<<"b">>)>>) >>
    /\ soup = content
    /\ ~changes_made

---------------------------------------------------------------------------
(* Normalization of the separators *)

\* a is b with some elements left out
RECURSIVE IsSubSeq(_, _)
IsSubSeq(a, b) ==
    IF a = <<>> THEN TRUE
    ELSE IF b = <<>> THEN FALSE
    ELSE IF Head(a) = Head(b) THEN IsSubSeq(Tail(a), Tail(b))
    ELSE IsSubSeq(a, Tail(b))

\* no span of the run a..b has an element child, and none before the last
\* one equals the last one
PlainRun(sibs, a, b) ==
    \A m \in a..b :
        IsTag(sibs[m]) => (TextOnly(sibs[m]) /\ (m < b => sibs[m] # sibs[b]))

\* C14: in the plugin the children of a merged span are the children of the
\* spans of the run, as they were, and the separators between them with
\* each newline and carriage return turned into one space and every other
\* character kept; nothing else appears in it, and a run of spans with text
\* only, none equal to the last, yields exactly these nodes.
C14_OnlySeparatorsNormalized ==
    [][(MergeRun /\ entry = "merge_plugin") =>
          LET path == spans[i]
              sibs == Siblings(soup, path)
              k == path[Len(path)]
              merged == NodeAt(soup', path).contents
              expected == RunContents(sibs, k, RunEnd(sibs, k))
          IN  /\ IsSubSeq(merged, expected)
              /\ PlainRun(sibs, k, RunEnd(sibs, k)) => merged = expected]_vars

\* the separator tab, return, newline, space came out as tab and three
\* spaces, the line breaks inside the spans are still there
C14_Witness ==
    /\ MergeDone
    /\ entry = "merge_plugin"
    /\ TopList(content) = << Span(Style("s1"), <<Text(<<"a", "\n">>)>>),
                             Text(<<"\t", "\r", "\n", " ">>),
                             Span(Style("s1"), <<Text(<<"\r", "b", "\t">>)>>) >>
    /\ TopList(soup) = << Span(Style("s1"), << Text(<<"a", "\n">>),
                                               Text(<<"\t", " ", " ", " ">>),
                                               Text(<<"\r", "b", "\t">>) >>) >>

\* C15: the merge of the standalone script turns the line breaks of the
\* separators of a run into spaces: the text of the merged span is the text
\* of the spans and of the separators between them with every newline and
\* carriage return of a separator replaced by a space (the test expects
\* I am badly formatted).
C15_ScriptConvertsLineBreaks ==
    (MergeDone /\ entry = "merge_script") =>
        LET before == TopList(content)
            after == TopList(soup)
            groups == Groups(before, 1)
        IN  \A r \in 1..Len(groups) :
                LET a == groups[r][1]
                    b == groups[r][2]
                IN  (StyledSpan(before[a]) /\ PlainRun(before, a, b)) =>
                        /\ r <= Len(after)
                        /\ get_text(after[r]) = RunText(before, a, b)

---------------------------------------------------------------------------
(* The heading pass: the states without action *)

\* no body, no element child of body, or a first element child that is not
\* a paragraph
NoParagraphFirst(tree) == ~FirstIsParagraph(tree)

\* C16: the heading pass changes nothing, reports changed = false and
\* produced = 0 and leaves the counter as it was when the document has no
\* body, body has no element child, the first element child is not a
\* paragraph (with or without insert-even-if-non-empty), or the first
\* paragraph has text and insert-even-if-non-empty is off.
C16_NoActionStates ==
    (/\ Returned
     /\ \/ NoParagraphFirst(before_pass)
        \/ (FirstIsParagraph(before_pass)
              /\ ~IsBlank(get_text(FirstElement(before_pass)))
              /\ ~InsertEnabled)) =>
        /\ soup = before_pass
        /\ ~heading_changed
        /\ chapter_added = 0
        /\ chapter_number = counter_in
        /\ headings = <<>>

\* the first element child of body is a div and insert-even-if-non-empty is on
C16_Witness ==
    /\ Returned
    /\ InsertEnabled
    /\ HasBody(before_pass)
    /\ FirstTagChild(BodyOf(before_pass)) # 0
    /\ FirstElement(before_pass).name = "div"
    /\ soup = before_pass
    /\ chapter_number = counter_in

---------------------------------------------------------------------------
(* The heading text *)

\* the call has written a heading
WroteHeading == Returned /\ entry = "with_config" /\ Len(headings) = 1

\* C17: the heading written is the prefix (Chapter by default), one space,
\* the counter in the configured numbering style and, only when the
\* trailing text is not empty, one more space and the trailing text
\* (counter 1, Roman numerals, trailing text - X: Chapter I - X).
C17_HeadingText ==
    WroteHeading =>
        LET prefix == Get(config, "initial_chapter_text", Chapter)
            style == Get(config, "numbering_style", StyleNumeric)
            trailing == Get(config, "text_following_number", <<>>)
            number == IF style = StyleWords THEN number_to_words(counter_in)
                      ELSE IF style = StyleRoman THEN number_to_roman(counter_in)
                      ELSE str(counter_in)
        IN  /\ headings[1] = prefix \o <<" ">> \o number
                                \o (IF trailing = <<>> THEN <<>> ELSE <<" ">> \o trailing)
            /\ get_text(FirstElement(soup)) = headings[1]
            /\ (prefix = Chapter /\ counter_in = 1 /\ style = StyleRoman
                    /\ trailing = <<"-", " ", "X">>) =>
                   headings[1] = <<"C", "h", "a", "p", "t", "e", "r", " ", "I", " ", "-", " ", "X">>
            /\ (prefix = Chapter /\ counter_in = 5 /\ style = StyleWords
                    /\ trailing = <<>>) =>
                   headings[1] = <<"C", "h", "a", "p", "t", "e", "r", " ", "F", "i", "v", "e">>

\* counter 1 in Roman numerals with a trailing text was written
C17_Witness ==
    /\ WroteHeading
    /\ counter_in = 1
    /\ headings = << <<"C", "h", "a", "p", "t", "e", "r", " ", "I", " ", "-", " ", "X">> >>

---------------------------------------------------------------------------
(* The heading recognizer *)

IsUpper(c) == \E k \in 1..26 : UpperCase[k] = c

IsLower(c) == \E k \in 1..26 : LowerCase[k] = c

\* what follows the prefix and the whitespace after it in the trimmed text;
\* empty when the trimmed text does not begin with the prefix, compared
\* without regard to case, and at least one whitespace character
HeadingToken(text, prefix) ==
    LET trimmed == Strip(text)
        n == Len(prefix)
    IN  IF /\ Len(trimmed) > n
           /\ \A k \in 1..n : Fold(trimmed[k]) = Fold(prefix[k])
           /\ trimmed[n + 1] \in Whitespace
        THEN LStrip(SubSeq(trimmed, n + 1, Len(trimmed)))
        ELSE <<>>

Recognized == pc = "value" /\ entry = "is_existing_chapter_heading"

\* C18 as stated: true exactly when the token after prefix and whitespace
\* begins with a decimal digit, with one of the letters I, V, X, or with a
\* capitalized word (an upper-case letter and a lower-case letter).
C18_Original ==
    Recognized =>
        LET token == HeadingToken(argument.text, argument.prefix)
        IN  outcome = (/\ token # <<>>
                       /\ \/ IsDigit(token[1])
                          \/ Fold(token[1]) \in {"i", "v", "x"}
                          \/ /\ Len(token) >= 2
                             /\ IsUpper(token[1])
                             /\ IsLower(token[2]))

\* C18: is_existing_chapter_heading is true exactly when the trimmed text
\* begins, without regard to case, with the literal prefix and at least one
\* whitespace character, followed by a decimal digit, by one of the letters
\* I, V, X in either case, or by two letters in any case; Some other text
\* is not recognized.
C18_Recognizer ==
    Recognized =>
        LET token == HeadingToken(argument.text, argument.prefix)
        IN  /\ outcome = (/\ token # <<>>
                          /\ \/ IsDigit(token[1])
                             \/ Fold(token[1]) \in {"i", "v", "x"}
                             \/ /\ Len(token) >= 2
                                /\ IsLetter(token[1])
                                /\ IsLetter(token[2]))
            /\ argument.text = <<"S", "o", "m", "e", " ", "o", "t", "h", "e", "r", " ", "t", "e", "x", "t">>
                  => outcome = FALSE

\* a lower-case word after the prefix was recognized
C18_Witness ==
    /\ Recognized
    /\ argument.text = <<"C", "h", "a", "p", "t", "e", "r", " ", "o", "f">>
    /\ argument.prefix = Chapter
    /\ outcome = TRUE

---------------------------------------------------------------------------
(* The number formatter *)

\* the English cardinals of 1..19
CardinalsBelowTwenty ==
    << <<"O", "n", "e">>,
       <<"T", "w", "o">>,
       <<"T", "h", "r", "e", "e">>,
       <<"F", "o", "u", "r">>,
       <<"F", "i", "v", "e">>,
       <<"S", "i", "x">>,
       <<"S", "e", "v", "e", "n">>,
       <<"E", "i", "g", "h", "t">>,
       <<"N", "i", "n", "e">>,
       <<"T", "e", "n">>,
       <<"E", "l", "e", "v", "e", "n">>,
       <<"T", "w", "e", "l", "v", "e">>,
       <<"T", "h", "i", "r", "t", "e", "e", "n">>,
       <<"F", "o", "u", "r", "t", "e", "e", "n">>,
       <<"F", "i", "f", "t", "e", "e", "n">>,
       <<"S", "i", "x", "t", "e", "e", "n">>,
       <<"S", "e", "v", "e", "n", "t", "e", "e", "n">>,
       <<"E", "i", "g", "h", "t", "e", "e", "n">>,
       <<"N", "i", "n", "e", "t", "e", "e", "n">> >>

\* the English names of 20, 30, ..., 90
CardinalTens ==
    << <<"T", "w", "e", "n", "t", "y">>,
       <<"T", "h", "i", "r", "t", "y">>,
       <<"F", "o", "r", "t", "y">>,
       <<"F", "i", "f", "t", "y">>,
       <<"S", "i", "x", "t", "y">>,
       <<"S", "e", "v", "e", "n", "t", "y">>,
       <<"E", "i", "g", "h", "t", "y">>,
       <<"N", "i", "n", "e", "t", "y">> >>

\* the value of a string of decimal digits, -1 when it is not one
RECURSIVE DecimalValue(_)
DecimalValue(s) ==
    IF s = <<>> \/ \E k \in 1..Len(s) : ~IsDigit(s[k]) THEN -1
    ELSE IF Len(s) = 1 THEN (CHOOSE d \in 0..9 : Digits[d + 1] = s[1])
    ELSE 10 * DecimalValue(SubSeq(s, 1, Len(s) - 1))
             + (CHOOSE d \in 0..9 : Digits[d + 1] = s[Len(s)])

InWords == pc = "value" /\ entry = "number_to_words"

---------------------------------------------------------------------------
(* Roman numerals *)

\* the standard numerals of the digits 0..9 of each decimal place
RomanUnits ==
    << <<>>, <<"I">>, <<"I", "I">>, <<"I", "I", "I">>, <<"I", "V">>, <<"V">>, <<"V", "I">>, <<"V", "I", "I">>, <<"V", "I", "I", "I">>, <<"I", "X">> >>

RomanTens ==
    << <<>>, <<"X">>, <<"X", "X">>, <<"X", "X", "X">>, <<"X", "L">>, <<"L">>, <<"L", "X">>, <<"L", "X", "X">>, <<"L", "X", "X", "X">>, <<"X", "C">> >>

RomanHundreds ==
    << <<>>, <<"C">>, <<"C", "C">>, <<"C", "C", "C">>, <<"C", "D">>, <<"D">>, <<"D", "C">>, <<"D", "C", "C">>, <<"D", "C", "C", "C">>, <<"C", "M">> >>

RomanThousands ==
    << <<>>, <<"M">>, <<"M", "M">>, <<"M", "M", "M">> >>

StandardRoman(n) ==
    RomanThousands[(n \div 1000) + 1] \o RomanHundreds[((n \div 100) % 10) + 1]
        \o RomanTens[((n \div 10) % 10) + 1] \o RomanUnits[(n % 10) + 1]

RomanPairs ==
    { <<"C", "M">>, <<"C", "D">>, <<"X", "C">>, <<"X", "L">>, <<"I", "X">>, <<"I", "V">> }

\* value and rank (the larger the value, the smaller the rank) of a symbol
\* or pair
SymbolValue(t) ==
    CASE t = <<"M">> -> 1000 [] t = <<"C", "M">> -> 900 [] t = <<"D">> -> 500
      [] t = <<"C", "D">> -> 400 [] t = <<"C">> -> 100 [] t = <<"X", "C">> -> 90
      [] t = <<"L">> -> 50 [] t = <<"X", "L">> -> 40 [] t = <<"X">> -> 10
      [] t = <<"I", "X">> -> 9 [] t = <<"V">> -> 5 [] t = <<"I", "V">> -> 4
      [] t = <<"I">> -> 1 [] OTHER -> 0

\* a numeral cut into its symbols, the six pairs taken as one symbol
RECURSIVE RomanSymbols(_)
RomanSymbols(s) ==
    IF s = <<>> THEN <<>>
    ELSE IF Len(s) >= 2 /\ SubSeq(s, 1, 2) \in RomanPairs
    THEN <<SubSeq(s, 1, 2)>> \o RomanSymbols(SubSeq(s, 3, Len(s)))
    ELSE <<SubSeq(s, 1, 1)>> \o RomanSymbols(Tail(s))

RECURSIVE SumValues(_)
SumValues(ts) == IF ts = <<>> THEN 0 ELSE SymbolValue(Head(ts)) + SumValues(Tail(ts))

\* the numerals of 1..MaxRoman
RomanTable == [m \in 1..MaxRoman |-> number_to_roman(m)]

InRoman == pc = "value" /\ entry = "number_to_roman" /\ argument <= MaxRoman

\* C20: for 1 <= n <= 3999 number_to_roman(n) is the standard subtractive
\* numeral of n: its symbols, the pairs CM, CD, XC, XL, IX, IV counted as
\* one, have values that sum to n and never increase from left to right,
\* and no other number of the range has the same numeral (1994: MCMXCIV).
C20_StandardRoman ==
    InRoman =>
        LET symbols == RomanSymbols(outcome)
        IN  /\ outcome = StandardRoman(argument)
            /\ \A k \in 1..Len(symbols) : SymbolValue(symbols[k]) > 0
            /\ SumValues(symbols) = argument
            /\ \A k \in 1..(Len(symbols) - 1) :
                  SymbolValue(symbols[k]) >= SymbolValue(symbols[k + 1])
            /\ \A m \in 1..MaxRoman : m # argument => RomanTable[m] # outcome
            /\ argument = 1994 => outcome = <<"M", "C", "M", "X", "C", "I", "V">>

\* 1994 came out as MCMXCIV
C20_Witness ==
    /\ InRoman
    /\ argument = 1994
    /\ outcome = <<"M", "C", "M", "X", "C", "I", "V">>

---------------------------------------------------------------------------
(* The dispatch on the numbering style *)

Formatted == pc = "value" /\ entry = "format_chapter_number"

\* C21: format_chapter_number gives the plain decimal string (digits only,
\* no leading zero) for the numeric label and for a configuration without
\* a style, the words rendering for the words label and the Roman rendering
\* for the Roman-numerals label of the dialog (5: 5, Five, V).
C21_StyleDispatch ==
    Formatted =>
        LET style == IF "numbering_style" \in DOMAIN config
                     THEN config["numbering_style"] ELSE <<>>
        IN  /\ style \in {<<>>, StyleNumeric} =>
                  /\ DecimalValue(outcome) = argument
                  /\ outcome[1] # "0"
                  /\ argument = 5 => outcome = <<"5">>
            /\ style = StyleWords =>
                  /\ outcome = number_to_words(argument)
                  /\ argument = 5 => outcome = <<"F", "i", "v", "e">>
            /\ style = StyleRoman =>
                  /\ outcome = number_to_roman(argument)
                  /\ argument <= MaxRoman => outcome = StandardRoman(argument)
                  /\ argument = 5 => outcome = <<"V">>

\* 5 in the Roman-numerals style of the dialog came out as V
C21_Witness ==
    /\ Formatted
    /\ argument = 5
    /\ "numbering_style" \in DOMAIN config
    /\ config["numbering_style"] = StyleRoman
    /\ outcome = <<"V">>

\* C22: number_to_words gives a word representation, letters and single
\* spaces only, for every integer from 1 to 100 inclusive.
C22_WordsUpToHundred ==
    (InWords /\ argument <= 100) =>
        /\ outcome # <<>>
        /\ \A k \in 1..Len(outcome) : IsLetter(outcome[k]) \/ outcome[k] = " "

---------------------------------------------------------------------------
(* Termination of the scan *)

\* what every iteration of `while i < len(spans)` makes smaller
ScanMeasure == 2 * Len(spans) - i

\* C23: every iteration of the scan either advances the cursor over an
\* unchanged span list or collapses a run, which leaves fewer spans and the
\* cursor on the merged span, whose run now has length 1; so a measure
\* bounded from below decreases with every iteration and the scan ends.
C23_ScanTerminates ==
    [][/\ MergeRun =>
             /\ Len(spans') < Len(spans)
             /\ i' = i
             /\ i' <= Len(spans')
             /\ has_attr(current_span', "style")
             /\ Len(CurrentRun') = 1
       /\ (MergeAdvance \/ MergeSkipUnstyled) => (i' = i + 1 /\ spans' = spans)
       /\ (pc = "merge" /\ pc' = "merge") =>
             (ScanMeasure' < ScanMeasure /\ ScanMeasure' >= -1)]_vars

\* three spans were collapsed into one and the cursor has moved past it
C23_Witness ==
    /\ pc = "merge"
    /\ calls = 1
    /\ changes_made
    /\ Len(find_all(content, "span")) = 3
    /\ Len(spans) = 1
    /\ i = 2

---------------------------------------------------------------------------
(* Processing a document a second time *)

\* C24: a document whose first paragraph holds a heading built by the
\* engine is left unchanged, and the counter is not incremented, when it is
\* processed again with insert-even-if-non-empty enabled.
C24_NoSecondHeading ==
    (pc = "done" /\ calls = 2 /\ Len(headings) >= 1) =>
        /\ soup = content
        /\ chapter_number = counter_in
        /\ Len(headings) = 1

---------------------------------------------------------------------------
(* Independence of the two passes *)

\* what the heading pass does with a tree: convert the first paragraph,
\* insert a new one, or nothing
HeadingDecision(tree) ==
    LET r == add_chapter_headings_with_config(tree, config,
                 Get(config, "insert_heading", FALSE))
    IN  IF ~should_add \/ ~r.changes_made THEN "none"
        ELSE IF Len(find_all(r.soup, "p")) > Len(find_all(tree, "p")) THEN "insert"
        ELSE "convert"

\* C25: with should_cleanup = true the heading pass takes the decision it
\* takes on the unmerged document and the same counter is returned: the
\* merge neither empties a first paragraph that had text nor changes
\* whether it is recognized as a heading.
C25_SameHeadingDecision ==
    (Returned /\ entry = "with_config" /\ should_cleanup) =>
        /\ HeadingDecision(before_pass) = HeadingDecision(content)
        /\ EmptyState(before_pass) <=> EmptyState(content)
        /\ chapter_number =
              counter_in + (IF HeadingDecision(content) = "none" THEN 0 ELSE 1)

---------------------------------------------------------------------------
(* Attributes of the merged span *)

\* C26: spans are merged on equal style values whatever their other
\* attributes are: every maximal run of the child list ends as one element,
\* and that element is the first span of the run with its tag name and all
\* of its own attributes; no attribute of a removed span is on it.
C26_FirstSpanKeepsAttributes ==
    MergeDone =>
        LET before == TopList(content)
            after == TopList(soup)
            groups == Groups(before, 1)
        IN  /\ Len(after) = Len(groups)
            /\ \A r \in 1..Len(groups) :
                  StyledSpan(before[groups[r][1]]) =>
                      /\ after[r].name = before[groups[r][1]].name
                      /\ after[r].attrs = before[groups[r][1]].attrs

\* a span with style and class, one with the same style and another class
\* and an id: one span is left, with the attributes of the first
C26_Witness ==
    /\ MergeDone
    /\ TopList(content) =
          << Span(Style("s1") @@ ("class" :> "c1"), <<Text(<<"b">>)>>),
             Text(<<" ">>),
             Span(Style("s1") @@ ("class" :> "c2") @@ ("id" :> "k"),
                  <<Text(<<"c">>)>>) >>
    /\ Len(TopList(soup)) = 1
    /\ TopList(soup)[1].name = "span"
    /\ TopList(soup)[1].attrs = Style("s1") @@ ("class" :> "c1")

---------------------------------------------------------------------------
(* Scopes of the plugin batch *)

\* file f of the document list is selected by a checkbox and its scope
InScope(enabled, scope, f) ==
    /\ enabled
    /\ scope = CurrentFileOnly => f = current_file
    /\ scope = CurrentFileOnwards => ~(current_file >= 1 /\ f < current_file)

\* C27: in the plugin batch only documents selected by a scope are written,
\* and the call made for a document runs exactly the passes whose scope
\* holds it: 'Current File Only' gives the pass to the current document
\* alone, 'Current File Onwards' to no document before the current one.
C27_ScopesRespected ==
    entry = "run_tool" =>
        /\ \A f \in written :
              \/ InScope(config.cleanup_spans, config.cleanup_scope, f)
              \/ InScope(config.add_chapters, config.chapter_scope, f)
        /\ pc \notin {"loop", "done"} =>
              /\ should_cleanup =
                    InScope(config.cleanup_spans, config.cleanup_scope, file_idx)
              /\ should_add =
                    InScope(config.add_chapters, config.chapter_scope, file_idx)
              /\ should_cleanup \/ should_add
        /\ pc = "merge" => should_cleanup
        /\ pc = "loop" =>
              \A f \in 1..(file_idx - 1) :
                  f \in written \/
                      /\ ~InScope(config.cleanup_spans, config.cleanup_scope, f)
                      /\ ~InScope(config.add_chapters, config.chapter_scope, f)

\* second of two documents open, cleanup from the current file onwards and
\* headings for the current file only: the first document was not written
C27_Witness ==
    /\ entry = "run_tool"
    /\ pc = "done"
    /\ n_files = 2
    /\ current_file = 2
    /\ config.cleanup_spans
    /\ config.cleanup_scope = CurrentFileOnwards
    /\ config.add_chapters
    /\ config.chapter_scope = CurrentFileOnly
    /\ written = {2}

---------------------------------------------------------------------------
(* The configurable pipeline with an empty configuration *)

\* C28: process_xhtml_content_with_config(content, n, {}, True, True)
\* returns the document and the counter that process_xhtml_content(content, n)
\* of the plugin module returns.
C28_SameAsFixedPipeline ==
    (pc = "done" /\ calls = 2) =>
        /\ entry = "with_config"
        /\ outcome = <<soup, chapter_number>>

\* both pipelines merged a run and wrote the same heading into the empty
\* first paragraph
C28_Witness ==
    /\ pc = "done"
    /\ calls = 2
    /\ changes_made
    /\ Len(headings) = 2
    /\ headings[1] = headings[2]
    /\ chapter_number = counter_in + 1
    /\ outcome = <<soup, chapter_number>>
    /\ soup # content

---------------------------------------------------------------------------
(* Enabled controls of the dialog *)

DialogShown == pc \in {"dialog", "accepted", "rejected"}

\* C29: once the dialog is built, and after any toggles of the two check
\* boxes, the Apply button is enabled exactly when one of them is checked,
\* the cleanup scope selector exactly when the cleanup check box is, and
\* each of the six chapter controls exactly when the chapter check box is.
C29_ControlStates ==
    DialogShown =>
        /\ dialog.enabled["apply_button"] =
              (dialog.cleanup_checkbox \/ dialog.chapter_checkbox)
        /\ dialog.enabled["cleanup_scope_combo"] = dialog.cleanup_checkbox
        /\ \A c \in {"chapter_scope_combo", "start_number_spin",
                     "initial_chapter_text", "numbering_style_combo",
                     "text_following_number", "insert_heading_checkbox"} :
              dialog.enabled[c] = dialog.chapter_checkbox

\* the chapter check box was checked, the insert check box set, the
\* chapter check box cleared again and the cleanup check box checked
C29_Witness ==
    /\ pc = "dialog"
    /\ dialog.cleanup_checkbox
    /\ ~dialog.chapter_checkbox
    /\ dialog.insert_heading_checkbox
    /\ dialog.enabled["apply_button"]
    /\ ~dialog.enabled["insert_heading_checkbox"]

---------------------------------------------------------------------------
(* The start number proposed by the dialog *)

\* the first run of decimal digits of s, <<>> when s holds no digit
FirstRunOfDigits(s) ==
    IF \A k \in 1..Len(s) : ~IsDigit(s[k]) THEN <<>>
    ELSE LET a == CHOOSE k \in 1..Len(s) :
                      IsDigit(s[k]) /\ \A m \in 1..(k - 1) : ~IsDigit(s[m])
             b == CHOOSE k \in a..Len(s) :
                      /\ \A m \in a..k : IsDigit(s[m])
                      /\ k = Len(s) \/ ~IsDigit(s[k + 1])
         IN  SubSeq(s, a, b)

\* text[a..b] is a whole run of digits that follows the word "Chapter", in
\* any case, and white space
FollowsChapter(text, a, b) ==
    /\ a <= b
    /\ \A m \in a..b : IsDigit(text[m])
    /\ b = Len(text) \/ ~IsDigit(text[b + 1])
    /\ \E p \in 1..(a - 1 - Len(Chapter)) :
          /\ \A k \in 1..Len(Chapter) : Fold(text[p + k - 1]) = Fold(Chapter[k])
          /\ \A m \in (p + Len(Chapter))..(a - 1) : text[m] \in Whitespace

\* the number after the first "Chapter" of text that has one, <<>> if none has
NumberAfterChapter(text) ==
    IF ~\E a, b \in 1..Len(text) : FollowsChapter(text, a, b) THEN <<>>
    ELSE LET a == CHOOSE x \in 1..Len(text) :
                      /\ \E b \in 1..Len(text) : FollowsChapter(text, x, b)
                      /\ \A y \in 1..(x - 1) :
                            ~\E b \in 1..Len(text) : FollowsChapter(text, y, b)
             b == CHOOSE y \in 1..Len(text) : FollowsChapter(text, a, y)
         IN  SubSeq(text, a, b)

\* the paragraphs that are children of the body of a file, in order
BodyParagraphs(tree) ==
    IF tree = NoContent \/ ~HasBody(tree) THEN <<>>
    ELSE SelectSeq(BodyOf(tree).contents, LAMBDA n : IsTag(n) /\ n.name = "p")

\* the number the claim names for a file name and a file content
NamedNumber(name, file) ==
    IF FirstRunOfDigits(name) # <<>> THEN DecimalValue(FirstRunOfDigits(name))
    ELSE IF /\ BodyParagraphs(file) # <<>>
            /\ NumberAfterChapter(Strip(get_text(BodyParagraphs(file)[1]))) # <<>>
    THEN DecimalValue(NumberAfterChapter(Strip(get_text(BodyParagraphs(file)[1]))))
    ELSE 1

\* C30 as stated: the dialog is built with the start-number control
\* holding the first run of digits of the file name, else the number after
\* "Chapter" in the first paragraph of the body, else 1, and that value is
\* within 1..9999.
C30_Original ==
    [][pc = "construct" =>
          /\ dialog'.start_number_spin =
                NamedNumber(argument.current_file_name,
                            argument.current_file_content)
          /\ dialog'.start_number_spin \in 1..MaxNumber]_vars

\* C30 amended: the control is built holding that number brought into its
\* range: 1 for a number below 1, 9999 for a number above 9999; and the
\* value of the control is within 1..9999 whatever the user does.
C30_ProposedStartNumber ==
    /\ [][pc = "construct" =>
             LET n == NamedNumber(argument.current_file_name,
                                  argument.current_file_content)
             IN  dialog'.start_number_spin =
                     (IF n < 1 THEN 1 ELSE IF n > MaxNumber THEN MaxNumber ELSE n)]_vars
    /\ [](DialogShown => dialog.start_number_spin \in 1..MaxNumber)

\* the file chapter_0.xhtml is open: the control shows 1
C30_Witness ==
    /\ pc = "dialog"
    /\ argument.current_file_name =
          <<"c", "h", "a", "p", "t", "e", "r", "_", "0", ".", "x", "h", "t", "m", "l">>
    /\ dialog.start_number_spin = 1
    /\ ~dialog.chapter_checkbox
    /\ ~dialog.cleanup_checkbox

====
